---- MODULE Spec2Model ----
(***************************************************************************)
(* A model of the MCP OpenProject server: the two stdio JSON-RPC read      *)
(* loops (fastapi_mcp_server.handle_stdio_mode and                         *)
(* optimized_mcp_server.handle_stdio_mode), the tool handlers they call,   *)
(* the tool registry, the backend client (OpenProjectClient) and           *)
(* MCPCore._call_tool.                                                     *)
(***************************************************************************)
EXTENDS Integers, Sequences, FiniteSets, TLC

(***************************************************************************)
(* Bounds of the model.                                                    *)
(***************************************************************************)
\* request ids on the wire are 1..MaxId
MaxId == 2
\* project ids offered as tool arguments are -1..MaxPid
MaxPid == 1
\* MAX_CONNECTIONS, the size of the pool's semaphore
MaxConnections == 2
\* the pooled HTTP clients one run creates at most
MaxClients == 2
\* the elements of a backend page of work packages, at most
MaxElems == 2
\* the handler functions offered to register_tool are 1..MaxHandlers
MaxHandlers == 2
\* the connections the SSE server accepts at most
MaxSseClients == 2

(***************************************************************************)
(* Values.                                                                 *)
(***************************************************************************)
\* a member that a JSON object does not have
Absent == "absent"
\* Python's None in an id position (dict.get("id") of an object without id,
\* and JSON null in a response)
NoneId == 0
\* a local variable of handle_stdio_mode that no statement has assigned yet
Unbound == -1

Ids == 1..MaxId
Pids == (-1)..MaxPid

\* the method members offered: the ones a loop has a branch for, the MCP
\* notification notifications/initialized, and a method no server knows
Methods ==
    { "initialize", "tools/list", "tools/call", "resources/list",
      "initialized", "notifications/initialized",
      "notifications/tools/list_changed",
      "notifications/resources/list_changed", "ping" }

\* tool names offered on the stdio wire: the two tools of the fastapi server,
\* two of the optimized server's registry, and a name neither knows
ToolNames ==
    { "fetch_weekly_report", "get_project_data", "get_project",
      "create_work_package", "no_such_tool" }

\* the arguments member of tools/call: an object with or without project_id
NoArgs == [has_pid |-> FALSE, pid |-> 0]
Arguments == {NoArgs} \cup { [has_pid |-> TRUE, pid |-> p] : p \in Pids }

\* the params member: missing, a JSON value that is not an object (null, a
\* list, a string), or an object {name, arguments}
NoParams == [shape |-> Absent, name |-> Absent, arguments |-> NoArgs]
NonDictParams == [shape |-> "nondict", name |-> Absent, arguments |-> NoArgs]
DictParams ==
    { [shape |-> "dict", name |-> n, arguments |-> a] :
          n \in ToolNames, a \in Arguments }

(***************************************************************************)
(* Input lines.  syntax says what sys.stdin.readline returned: "" at end   *)
(* of stream, a whitespace-only line, text that json.loads rejects, or    *)
(* text that json.loads accepts; for the last, shape and the members say  *)
(* which JSON value the text denotes.                                     *)
(***************************************************************************)
NoMembers == [jsonrpc |-> Absent, id |-> NoneId, method |-> Absent,
              params |-> NoParams]

TextLine(syntax, shape) ==
    [syntax |-> syntax, shape |-> shape] @@ NoMembers

ObjectLine(jsonrpc, id, method, params) ==
    [syntax |-> "json", shape |-> "object", jsonrpc |-> jsonrpc, id |-> id,
     method |-> method, params |-> params]

Lines ==
    { TextLine("eof", Absent), TextLine("blank", Absent),
      TextLine("malformed", Absent),
      TextLine("json", "array"), TextLine("json", "scalar") }
    \cup { ObjectLine(v, i, m, NoParams) :
               v \in {"1.0", Absent}, i \in Ids \cup {NoneId},
               m \in {"initialize", Absent} }
    \cup { ObjectLine("2.0", i, m, NoParams) :
               i \in Ids \cup {NoneId}, m \in Methods \cup {Absent} }
    \cup { ObjectLine("2.0", i, "tools/call", p) :
               i \in Ids \cup {NoneId}, p \in DictParams \cup {NonDictParams} }

(***************************************************************************)
(* json.loads: the decoded value, or JSONDecodeError.                      *)
(***************************************************************************)
JSONDecodeError == [shape |-> "JSONDecodeError"] @@ NoMembers

json_loads(line) ==
    IF line.syntax = "malformed"
    THEN JSONDecodeError
    ELSE [shape |-> line.shape, jsonrpc |-> line.jsonrpc, id |-> line.id,
          method |-> line.method, params |-> line.params]

\* the exception json.loads raised
DecodeError == [ok |-> FALSE, type |-> "JSONDecodeError", status |-> 0,
                text |-> "Expecting value"]

\* isinstance(value, dict)
isinstance_dict(value) == value.shape = "object"

(***************************************************************************)
(* Python exceptions and call outcomes.                                    *)
(***************************************************************************)
Returned == [ok |-> TRUE, type |-> "none", status |-> 0, text |-> "ok"]
Raised(type, status, text) ==
    [ok |-> FALSE, type |-> type, status |-> status, text |-> text]
\* no exception
NoExc == Returned
\* 'list' (int, str, NoneType) object has no attribute 'get'
AttributeError == Raised("AttributeError", 0, "no attribute get")

(***************************************************************************)
(* The backend.  Each backend request is answered by the environment:      *)
(* a 200 with a body the mapper accepts, a 200 with a body it rejects, an  *)
(* HTTP error status (the generated client raises ApiException), or a      *)
(* network failure.  An oracle fixes the answers for the requests of one   *)
(* tool call, attempt by attempt for each of the two fetches, and whether  *)
(* the registry's wait_for timer fires first.                              *)
(***************************************************************************)
Answers == {"ok", "badbody", "401", "404", "500", "neterr"}
\* what the backend may answer to a request that repeats an earlier one
LaterAnswers == {"ok", "500"}

StatusOf(answer) ==
    CASE answer = "401" -> 401
      [] answer = "404" -> 404
      [] answer = "500" -> 500
      [] OTHER -> 0

\* @backoff.on_exception(backoff.expo, (...), max_tries=3)
max_tries == 3

\* the answers to the attempts of one fetch
AnswerSeqs ==
    { [i \in 1..max_tries |-> IF i = 1 THEN first ELSE later[i]] :
        first \in Answers, later \in [2..max_tries -> LaterAnswers] }
\* the same answer to every attempt
Always(answer) == [i \in 1..max_tries |-> answer]

Oracles ==
    { [project |-> p, wps |-> w, timeout |-> t] :
        p \in AnswerSeqs, w \in AnswerSeqs, t \in BOOLEAN }
QuietOracle == [project |-> Always("ok"), wps |-> Always("ok"), timeout |-> FALSE]

(***************************************************************************)
(* openproject_client.py                                                   *)
(***************************************************************************)
\* @dataclass OpenProjectError: the fields declared without a default
OpenProjectError_required == {"status_code", "error_code", "message"}

\* OpenProjectError(**kw): the dataclass __init__ raises TypeError when a
\* field without default is not given
OpenProjectError(kw) ==
    IF OpenProjectError_required \subseteq kw THEN "constructed" ELSE "TypeError"

\* an except ApiException clause that lets the ApiException through
ApiException_propagates(status) == Raised("ApiException", status, "API error")

\* the except ApiException clause of get_project / get_work_packages: every
\* branch builds OpenProjectError(status_code=..., message=...) as the
\* argument of the exception it is about to raise
on_ApiException(status) ==
    IF OpenProjectError({"status_code", "message"}) = "TypeError"
    THEN Raised("TypeError", 0, "missing argument error_code")
    ELSE IF status = 401
    THEN Raised("OpenProjectAuthenticationError", 401, "Authentication failed")
    ELSE IF status = 404
    THEN Raised("OpenProjectClientError", 404, "Project not found")
    ELSE Raised("OpenProjectClientError", status, "API error")

\* one run of the body of get_project (op = "project") or get_work_packages
\* (op = "wps") against one backend answer
fetch_body(op, answer) ==
    CASE answer = "ok" -> Returned
      [] StatusOf(answer) # 0 -> on_ApiException(StatusOf(answer))
      [] OTHER -> Raised("OpenProjectClientError", 0,
                         IF op = "project" THEN "Failed to get project"
                         ELSE "Failed to get work packages")

\* the exception types the decorator retries on
RetryOn == {"RequestError", "OpenProjectConnectionError", "ApiException"}

\* the decorated operation: the body is run again while it raises one of
\* RetryOn and fewer than max_tries runs were made; every run issues one
\* backend request, answered by the oracle's answer for that attempt.
\* tries counts the runs made, this one included.
should_retry(r, tries) == ~r.ok /\ r.type \in RetryOn /\ tries < max_tries

RECURSIVE backoff_on_exception(_, _, _)
backoff_on_exception(op, oracle, tries) ==
    LET r == fetch_body(op, oracle[op][tries]) IN
    IF should_retry(r, tries)
    THEN backoff_on_exception(op, oracle, tries + 1)
    ELSE [res |-> r,
          reqs |-> [i \in 1..tries |-> [op |-> op, answer |-> oracle[op][i]]]]

get_project(oracle) == backoff_on_exception("project", oracle, 1)
get_work_packages(oracle) == backoff_on_exception("wps", oracle, 1)

\* get_weekly_report: both fetches run under asyncio.gather with
\* return_exceptions=True, then the project's exception is raised if it has
\* one, else the work packages'
get_weekly_report(oracle) ==
    LET p == get_project(oracle)
        w == get_work_packages(oracle)
    IN  [res |-> IF ~p.res.ok THEN p.res ELSE w.res, reqs |-> p.reqs \o w.reqs]

NoCall(res) == [res |-> res, reqs |-> <<>>]

(***************************************************************************)
(* fastapi_mcp_server.py: the tool handlers of the stdio loop              *)
(***************************************************************************)
\* Python truth value of arguments.get("project_id")
truthy_project_id(arguments) == arguments.has_pid /\ arguments.pid # 0

handle_fetch_weekly_report(arguments, oracle) ==
    IF ~truthy_project_id(arguments)
    THEN NoCall(Raised("ValidationError", 0, "project_id is required"))
    ELSE get_weekly_report(oracle)

\* get_project, then get_work_packages only when get_project returned
handle_get_project_data(arguments, oracle) ==
    IF ~truthy_project_id(arguments)
    THEN NoCall(Raised("ValidationError", 0, "project_id is required"))
    ELSE LET p == get_project(oracle) IN
         IF ~p.res.ok THEN p
         ELSE LET w == get_work_packages(oracle) IN
              [res |-> w.res, reqs |-> p.reqs \o w.reqs]

(***************************************************************************)
(* mcp_toolkit.py and the tools optimized_mcp_server.py registers.  The    *)
(* registry's two dicts _tools and _configs are assigned together, so they *)
(* hold the same keys in the same order: reg is the sequence of their      *)
(* items in dict order, one entry [name, func, config] per key.            *)
(***************************************************************************)
\* MCPToolConfig as the @mcp_tool decorator builds it; requires_auth keeps
\* its default, description stands for what tools/list shows of the config
MCPToolConfig(name, description, timeout) ==
    [name |-> name, description |-> description, timeout |-> timeout,
     requires_auth |-> TRUE]

\* the positions of a name in the registry
KeysOf(reg, name) == { i \in 1..Len(reg) : reg[i].name = name }

\* a registry that forgets a name before it stores it again, which moves a
\* re-registered name to the end
register_tool_deleting_first(reg, config, func) ==
    Append(SelectSeq(reg, LAMBDA e : e.name # config.name),
           [name |-> config.name, func |-> func, config |-> config])

\* MCPToolRegistry.register_tool: assignment to a dict key keeps the key's
\* place when the key exists and appends it when it does not
register_tool(reg, config, func) ==
    LET entry == [name |-> config.name, func |-> func, config |-> config] IN
    IF KeysOf(reg, config.name) = {} THEN Append(reg, entry)
    ELSE [i \in 1..Len(reg) |-> IF reg[i].name = config.name THEN entry
                                ELSE reg[i]]

\* MCPToolRegistry.list_tools: one descriptor per value of _configs
list_tools(reg) ==
    [i \in 1..Len(reg) |->
        [name |-> reg[i].config.name,
         description |-> reg[i].config.description]]

\* tool_registry after the @mcp_tool decorators of optimized_mcp_server.py
\* have run, each with a timeout
OptimizedRegistry ==
    register_tool(
        register_tool(
            register_tool(<<>>, MCPToolConfig("get_project", 1, TRUE), 1),
            MCPToolConfig("get_work_packages", 1, TRUE), 1),
        MCPToolConfig("create_work_package", 1, TRUE), 1)

\* the keys of tool_registry._tools in the optimized server
RegisteredTools ==
    { OptimizedRegistry[i].name : i \in 1..Len(OptimizedRegistry) }

\* func(**params) for the registered tools: get_project and get_work_packages
\* need project_id, create_work_package needs more than the model offers;
\* the tools simulate their data and issue no backend request
call_registered(tool_name, arguments) ==
    IF tool_name = "create_work_package" \/ ~arguments.has_pid
    THEN Raised("TypeError", 0, "missing required argument")
    ELSE Returned

\* what the awaited handler does: it returns in time, it raises an exception,
\* it raises asyncio.TimeoutError itself, or it runs on for longer than any
\* timeout and then returns
Behaviours == {"returns", "raises", "raises_timeout", "slow"}

\* setup_default_middlewares: add_middleware appends to _middleware_stack
setup_default_middlewares ==
    <<"auth_middleware", "validation_middleware", "rate_limit_middleware",
      "audit_middleware">>

\* a chain in which no middleware refuses the call
middleware_never_raises(m, config, authenticated) == FALSE

\* whether middleware m raises: auth_middleware raises HTTPException(401)
\* for a tool that requires authentication and a context that is not
\* authenticated; the other three return the context
middleware_raises(m, config, authenticated) ==
    m = "auth_middleware" /\ config.requires_auth /\ ~authenticated

\* for middleware in self._middleware_stack: the middlewares awaited, in
\* their order, up to the one that raises
RECURSIVE apply_middlewares(_, _, _, _)
apply_middlewares(stack, config, authenticated, ran) ==
    IF stack = <<>> THEN [ran |-> ran, raised |-> FALSE]
    ELSE IF middleware_raises(Head(stack), config, authenticated)
    THEN [ran |-> Append(ran, Head(stack)), raised |-> TRUE]
    ELSE apply_middlewares(Tail(stack), config, authenticated,
                           Append(ran, Head(stack)))

\* MCPToolRegistry.execute_tool with the default middlewares; res is what
\* the call returns or raises, ran the handler function that was awaited
\* (0 when none was), middlewares the middlewares awaited
execute_tool(reg, tool_name, authenticated, behaviour) ==
    IF KeysOf(reg, tool_name) = {}
    THEN [res |-> Raised("HTTPException", 404, "Tool not found"), ran |-> 0,
          middlewares |-> <<>>]
    ELSE LET entry == reg[CHOOSE i \in KeysOf(reg, tool_name) : TRUE]
             config == entry.config
             chain == apply_middlewares(setup_default_middlewares, config,
                                        authenticated, <<>>)
         IN  IF chain.raised
             THEN \* the middleware loop stands before the try block
                  [res |-> Raised("HTTPException", 401, "Authentication required"),
                   ran |-> 0, middlewares |-> chain.ran]
             ELSE [ran |-> entry.func, middlewares |-> chain.ran,
                   res |->
                     CASE behaviour = "raises" ->
                              Raised("HTTPException", 500, "Tool execution failed")
                       [] behaviour = "raises_timeout"
                          \/ (behaviour = "slow" /\ config.timeout) ->
                              \* except asyncio.TimeoutError
                              Raised("HTTPException", 408, "Tool execution timeout")
                       [] OTHER -> Returned]

\* the call of the stdio loop: func(**params) raises at once when an
\* argument is missing, else the handler returns unless the timer fires
stdio_execute_tool(tool_name, arguments, timed_out) ==
    execute_tool(OptimizedRegistry, tool_name, TRUE,
                 IF ~call_registered(tool_name, arguments).ok THEN "raises"
                 ELSE IF timed_out THEN "slow" ELSE "returns").res

(***************************************************************************)
(* JSON-RPC responses.  payload names what the result member holds.        *)
(***************************************************************************)
ParseError == -32700
InvalidRequest == -32600
MethodNotFound == -32601
InternalError == -32603

Result(id, payload) ==
    [id |-> id, kind |-> "result", code |-> 0, payload |-> payload]
Error(id, code) ==
    [id |-> id, kind |-> "error", code |-> code, payload |-> "none"]

\* what one pass of the loop body did: where the loop is afterwards, the
\* value of the local request_id, the responses printed, the method branch
\* entered, the exception the generic handler caught, the backend requests
Pass(pcAfter, rid, out, branch, exc, requests) ==
    [pc |-> pcAfter, request_id |-> rid, written |-> out,
     dispatched |-> branch, caught |-> exc, reqs |-> requests]

\* the loop leaves through break
Break(rid) == Pass("returned", rid, <<>>, "none", NoExc, <<>>)
\* a loop without the check for an empty line: json.loads('') raises and
\* the decode error is answered
blank_line_decoded(rid) ==
    Pass("reading", rid, <<Error(NoneId, ParseError)>>, "none",
         [ok |-> FALSE, type |-> "JSONDecodeError", status |-> 0,
          text |-> "Expecting value"], <<>>)

\* continue without output
Skip(rid) == Pass("reading", rid, <<>>, "none", NoExc, <<>>)

(***************************************************************************)
(* fastapi_mcp_server.handle_stdio_mode: one pass of the while loop        *)
(***************************************************************************)
\* a generic except clause that logs the exception and prints no response
fastapi_exception_unanswered(rid, branch, exc, requests) ==
    Pass("reading", rid, <<>>, branch, exc, requests)

\* except Exception: the id is the local request_id when the name is bound,
\* whatever statement bound it
fastapi_on_exception(rid, branch, exc, requests) ==
    Pass("reading", rid,
         <<Error(IF rid # Unbound THEN rid ELSE NoneId, InternalError)>>,
         branch, exc, requests)

\* a plausible slip: the generic except clause written first, so that it
\* also takes the decode error
fastapi_decode_error_as_internal(rid) ==
    fastapi_on_exception(rid, "none", DecodeError, <<>>)

\* except json.JSONDecodeError
fastapi_on_decode_error(rid) ==
    Pass("reading", rid, <<Error(NoneId, ParseError)>>,
         "none", DecodeError, <<>>)

\* the tools/call branch; request_id already holds this message's id
fastapi_tools_call(params, rid, oracle) ==
    IF params.shape = "nondict"
    THEN \* params.get raises AttributeError
         fastapi_on_exception(rid, "tools/call", AttributeError, <<>>)
    ELSE IF params.name \notin {"fetch_weekly_report", "get_project_data"}
    THEN Pass("reading", rid, <<Result(rid, "unknown_tool")>>,
              "tools/call", NoExc, <<>>)
    ELSE LET call == IF params.name = "fetch_weekly_report"
                     THEN handle_fetch_weekly_report(params.arguments, oracle)
                     ELSE handle_get_project_data(params.arguments, oracle)
         IN  IF call.res.ok
             THEN Pass("reading", rid, <<Result(rid, "data")>>,
                       "tools/call", NoExc, call.reqs)
             ELSE fastapi_on_exception(rid, "tools/call", call.res,
                                       call.reqs)

fastapi_dispatch(request_data, oracle) ==
    LET method == request_data.method
        rid == request_data.id
        answer(payload) ==
            Pass("reading", rid, <<Result(rid, payload)>>, method, NoExc, <<>>)
    IN  CASE method = "initialize" -> answer("initialize")
          [] method = "tools/list" -> answer("tools")
          [] method = "tools/call" ->
                 fastapi_tools_call(request_data.params, rid, oracle)
          [] method = "resources/list" -> answer("resources")
          [] method \in {"initialized", "notifications/tools/list_changed",
                         "notifications/resources/list_changed"} ->
                 answer("null")
          [] OTHER ->
                 Pass("reading", rid, <<Error(rid, MethodNotFound)>>,
                      "unknown", NoExc, <<>>)

fastapi_pass(line, rid, oracle) ==
    IF line.syntax = "eof" THEN Break(rid)
    ELSE IF line.syntax = "blank" THEN Skip(rid)
    ELSE LET request_data == json_loads(line) IN
         IF request_data = JSONDecodeError
         THEN fastapi_on_decode_error(rid)
         ELSE IF ~isinstance_dict(request_data) \/ request_data.jsonrpc # "2.0"
         THEN IF ~isinstance_dict(request_data)
              THEN \* request_data.get("id", None) raises AttributeError
                   fastapi_on_exception(rid, "none", AttributeError, <<>>)
              ELSE Pass("reading", rid,
                        <<Error(request_data.id, InvalidRequest)>>,
                        "none", NoExc, <<>>)
         ELSE fastapi_dispatch(request_data, oracle)

(***************************************************************************)
(* optimized_mcp_server.handle_stdio_mode: one pass of the while loop      *)
(***************************************************************************)
\* except Exception: the id is request_data.get("id"); when request_data is
\* not a dict that call raises inside the handler, the exception leaves the
\* while loop and the outer except Exception ends the function
optimized_on_exception(request_data, rid, branch, exc) ==
    IF ~isinstance_dict(request_data)
    THEN Pass("returned", rid, <<>>, branch, exc, <<>>)
    ELSE Pass("reading", rid, <<Error(request_data.id, InternalError)>>,
              branch, exc, <<>>)

\* except json.JSONDecodeError
optimized_on_decode_error(rid) ==
    Pass("reading", rid, <<Error(NoneId, ParseError)>>,
         "none", DecodeError, <<>>)

optimized_tools_call(request_data, oracle) ==
    LET params == request_data.params
        rid == request_data.id
    IN  IF params.shape = "nondict"
        THEN optimized_on_exception(request_data, rid, "tools/call",
                                    AttributeError)
        ELSE LET r == stdio_execute_tool(params.name, params.arguments,
                                         oracle.timeout)
             IN  IF r.ok
                 THEN Pass("reading", rid, <<Result(rid, "data")>>,
                           "tools/call", NoExc, <<>>)
                 ELSE \* the inner except Exception of the branch
                      Pass("reading", rid, <<Error(rid, InternalError)>>,
                           "tools/call", r, <<>>)

optimized_dispatch(request_data, oracle) ==
    LET method == request_data.method
        rid == request_data.id
        answer(payload) ==
            Pass("reading", rid, <<Result(rid, payload)>>, method, NoExc, <<>>)
    IN  CASE method = "initialize" -> answer("initialize")
          [] method = "tools/list" -> answer("tools")
          [] method = "tools/call" -> optimized_tools_call(request_data, oracle)
          [] OTHER ->
                 Pass("reading", rid, <<Error(rid, MethodNotFound)>>,
                      "unknown", NoExc, <<>>)

optimized_pass(line, rid, oracle) ==
    IF line.syntax = "eof" THEN Break(rid)
    ELSE IF line.syntax = "blank" THEN Skip(rid)
    ELSE LET request_data == json_loads(line) IN
         IF request_data = JSONDecodeError
         THEN optimized_on_decode_error(rid)
         ELSE IF ~isinstance_dict(request_data) \/ request_data.jsonrpc # "2.0"
         THEN IF ~isinstance_dict(request_data)
              THEN \* request_data.get("id") raises AttributeError
                   optimized_on_exception(request_data, rid, "none",
                                          AttributeError)
              ELSE Pass("reading", rid,
                        <<Error(request_data.id, InvalidRequest)>>,
                        "none", NoExc, <<>>)
         ELSE optimized_dispatch(request_data, oracle)

(***************************************************************************)
(* mcp_core.py: MCPCore._call_tool.  The outcome is the CallToolResult's   *)
(* text: the tool's data ("ok") or {"error": "<prefix>: ..."}.             *)
(***************************************************************************)
CoreToolNames ==
    {"get_project", "get_work_packages", "get_weekly_report", "no_such_tool"}

\* OpenProjectClient.__init__ via create_openproject_client: raises
\* AuthenticationError when OPENPROJECT_API_KEY is not set
create_openproject_client(key_set) ==
    IF key_set THEN Returned
    ELSE Raised("AuthenticationError", 0, "API key not configured")

\* _handle_get_project, _handle_get_work_packages, _handle_get_weekly_report
core_handle(name, arguments, oracle) ==
    IF ~truthy_project_id(arguments)
    THEN NoCall(Raised("ValueError", 0, "project_id is required"))
    ELSE CASE name = "get_project" -> get_project(oracle)
           [] name = "get_work_packages" -> get_work_packages(oracle)
           [] OTHER -> get_weekly_report(oracle)

\* the except clauses of _call_tool, in their order
core_error_text(exc) ==
    IF exc.type \in {"ValueError", "KeyError"} THEN "Invalid arguments"
    ELSE IF exc.type \in {"OpenProjectClientError",
                          "OpenProjectConnectionError",
                          "OpenProjectAuthenticationError",
                          "AuthenticationError", "SecurityError"}
    THEN "OpenProject API error"
    ELSE "Unexpected error"

\* _call_tool: the client after the call, the exception caught (if any), the
\* result text and the backend requests issued
call_tool(name, arguments, cl, key_set, oracle) ==
    LET made == IF cl = "None" THEN create_openproject_client(key_set)
                ELSE Returned
        run == IF ~made.ok THEN NoCall(made)
               ELSE IF name \notin {"get_project", "get_work_packages",
                                    "get_weekly_report"}
               THEN NoCall(Raised("ValueError", 0, "Unknown tool"))
               ELSE core_handle(name, arguments, oracle)
    IN  [client |-> IF made.ok THEN "created" ELSE cl,
         caught |-> run.res,
         text |-> IF run.res.ok THEN "ok" ELSE core_error_text(run.res),
         reqs |-> run.reqs]

(***************************************************************************)
(* fastapi_mcp_server.py: GET /api/v1/projects/{project_id} and the        *)
(* exception handlers that turn what it raises into an HTTP status         *)
(***************************************************************************)
\* "not found" in str(exc).lower(), "authentication" in str(exc).lower()
says_not_found(text) == text = "Project not found"
says_authentication(text) == text = "Authentication failed"

\* openproject_exception_handler
openproject_exception_handler(exc) ==
    IF exc.status # 0 THEN exc.status
    ELSE IF says_not_found(exc.text) THEN 404
    ELSE IF says_authentication(exc.text) THEN 401
    ELSE 500

\* the handler the framework picks for an exception the endpoint raised
exception_status(exc) ==
    IF exc.type \in {"OpenProjectClientError", "OpenProjectConnectionError",
                     "OpenProjectAuthenticationError"}
    THEN openproject_exception_handler(exc)
    ELSE 500

\* the endpoint: client.get_project(project_id), 200 with the project
rest_get_project(oracle) ==
    LET r == get_project(oracle) IN
    [status |-> IF r.res.ok THEN 200 ELSE exception_status(r.res),
     caught |-> r.res, reqs |-> r.reqs]

(***************************************************************************)
(* openproject_client.py: the mapping of backend responses.  A backend     *)
(* value is an object with attributes (shape "object"), a dict ("dict") or *)
(* anything else ("other").  A member of it is Absent, "None" (null) or a  *)
(* value: a string is "value".  An id is a number, has_id telling whether  *)
(* the value has one.                                                      *)
(***************************************************************************)
ProjectBodies ==
    { [shape |-> sh, has_id |-> i # 0, id |-> i, name |-> n, identifier |-> d] :
        sh \in {"object", "dict"}, i \in 0..MaxPid,
        n \in {"value", "None", Absent}, d \in {"value", "None", Absent} }
    \cup { [shape |-> "other", has_id |-> FALSE, id |-> 0, name |-> Absent,
            identifier |-> Absent] }

\* getattr(obj, name, default)
getattr(member, default) == IF member = Absent THEN default ELSE member

\* a mapper's result: the model built, or the exception raised
Mapped(value) == [res |-> Returned, value |-> value]
NotMapped(exc) == [res |-> exc, value |-> "none"]

\* ProjectInfo(id=..., name=..., identifier=...): id: int, name: str and
\* identifier: str are required and not Optional
ProjectInfo(has_id, id, name, identifier) ==
    IF has_id /\ name \notin {"None", Absent}
              /\ identifier \notin {"None", Absent}
    THEN Mapped([id |-> id, name |-> name, identifier |-> identifier])
    ELSE NotMapped(Raised("ValidationError", 0, "validation error for ProjectInfo"))

\* _extract_project_data
extract_project_data(body) ==
    CASE body.shape = "object" ->
             \* id=getattr(project_result, 'id', 0)
             ProjectInfo(TRUE, IF body.has_id THEN body.id ELSE 0,
                         getattr(body.name, "Unknown Project"),
                         getattr(body.identifier, ""))
      [] body.shape = "dict" ->
             ProjectInfo(body.has_id, body.id, body.name, body.identifier)
      [] OTHER -> NotMapped(AttributeError)

\* the elements of a page and the pages: the element list sits in
\* _embedded.elements or elements of an object, in ["_embedded"]["elements"]
\* of a dict, or is the response itself
\* status, priority and assignee of an element are read by the same code;
\* ref stands for each of them: an object with a name, Absent, "None", a
\* nested mapping, a list or a scalar (a string)
Elements ==
    [shape : {"object", "dict", "other"}, id : 1..MaxElems,
     subject : {"value", "None", Absent},
     ref : {"object", Absent, "None", "mapping", "list", "scalar"}]
Pages ==
    [shape : {"embedded", "elements", "dict", "list"},
     elements : UNION { [1..n -> Elements] : n \in 0..MaxElems }]

\* WorkPackageInfo(id=..., subject=..., status=...): subject: str is
\* required; status: Optional[str] takes None, a string or nothing, and the
\* entry then carries "None", the name or the scalar
WorkPackageInfo(id, subject, status) ==
    IF subject \notin {"None", Absent}
       /\ status \notin {"object", "mapping", "list"}
    THEN Mapped([id |-> id, subject |-> subject,
                 status |-> IF status = Absent THEN "None" ELSE status])
    ELSE NotMapped(Raised("ValidationError", 0, "validation error for WorkPackageInfo"))

\* the for loop of _extract_work_packages_data from element i on, wp_info
\* being the list built so far
RECURSIVE convert_work_packages(_, _, _)
convert_work_packages(list, i, wp_info) ==
    IF i > Len(list) THEN Mapped(wp_info)
    ELSE LET wp == list[i]
             info == IF wp.shape = "object"
                     THEN \* getattr(getattr(wp, 'status', None), 'name', None)
                          WorkPackageInfo(wp.id, getattr(wp.subject, ""),
                              IF wp.ref = "object" THEN "name" ELSE "None")
                     ELSE \* WorkPackageInfo(**wp)
                          WorkPackageInfo(wp.id, wp.subject, wp.ref)
         IN  IF wp.shape = "other"
             THEN convert_work_packages(list, i + 1, wp_info)
             ELSE IF ~info.res.ok THEN info
             ELSE convert_work_packages(list, i + 1, Append(wp_info, info.value))

\* _extract_work_packages_data
extract_work_packages_data(page) ==
    convert_work_packages(page.elements, 1, <<>>)

(***************************************************************************)
(* get_weekly_report once asyncio.gather has both results                  *)
(***************************************************************************)
\* a week label that ignores the argument
week_always_current(week) == "current"

\* week or "current"
week_label(week) == IF week \in {"None", ""} THEN "current" ELSE week

\* a report built from the project alone when the work packages failed
report_without_work_packages(week, p, w) ==
    IF ~p.res.ok THEN NotMapped(p.res) @@ [raised_from |-> "project"]
    ELSE Mapped([project |-> p.value,
                 work_packages |-> IF w.res.ok THEN w.value ELSE <<>>,
                 week |-> week_label(week)]) @@ [raised_from |-> "none"]

\* raise project if it is an exception, else raise work_packages if it is
\* one, else WeeklyReportData(project, work_packages, week or "current")
raise_or_report(week, p, w) ==
    IF ~p.res.ok THEN NotMapped(p.res) @@ [raised_from |-> "project"]
    ELSE IF ~w.res.ok THEN NotMapped(w.res) @@ [raised_from |-> "wps"]
    ELSE Mapped([project |-> p.value, work_packages |-> w.value,
                 week |-> week_label(week)]) @@ [raised_from |-> "none"]

\* WeeklyReportResponse(...) of the REST endpoint; _handle_get_weekly_report
\* builds the same members
weekly_report_response(data) ==
    [project |-> data.project, work_packages |-> data.work_packages,
     week |-> data.week, total_packages |-> Len(data.work_packages)]

(***************************************************************************)
(* openproject_client.py: HTTPClientManager and the client's lifecycle.    *)
(* pool holds one entry per httpx.AsyncClient the manager has created, in  *)
(* creation order: the number of times aclose() was called on it.  The     *)
(* manager's _client is the last entry (None while pool is empty).  apis   *)
(* is the set of the client's cached attributes that are not None.         *)
(***************************************************************************)
\* self._client is None
client_is_None(p) == p = <<>>
\* self._client.is_closed
is_closed(p) == p[Len(p)] > 0

\* HTTPClientManager.get_client: creates a client when there is none or the
\* current one is closed
http_manager_get_client(p) ==
    IF client_is_None(p) \/ is_closed(p) THEN Append(p, 0) ELSE p

\* HTTPClientManager.close calling aclose() whatever the client's state
close_without_check(p) ==
    IF client_is_None(p) THEN p ELSE [p EXCEPT ![Len(p)] = @ + 1]

\* HTTPClientManager.close: aclose() on a client that exists and is open
http_manager_close(p) ==
    IF ~client_is_None(p) /\ ~is_closed(p)
    THEN [p EXCEPT ![Len(p)] = @ + 1]
    ELSE p

\* _api_client, _projects_api, _work_packages_api
ApiAttrs == {"api_client", "projects_api", "work_packages_api"}
ApiOf(op) == IF op = "project" THEN "projects_api" ELSE "work_packages_api"

\* every call builds the attributes anew and opens an HTTP client of its own
get_api_unchecked(op, a, p) ==
    [apis |-> a \cup {ApiOf(op), "api_client"}, pool |-> Append(p, 0)]

\* get_projects_api / get_work_packages_api with _get_api_client: each
\* attribute is built when it is None; building _api_client asks the
\* manager for its HTTP client
get_api(op, a, p) ==
    IF ApiOf(op) \in a THEN [apis |-> a, pool |-> p]
    ELSE IF "api_client" \in a THEN [apis |-> a \cup {ApiOf(op)}, pool |-> p]
    ELSE [apis |-> a \cup {ApiOf(op), "api_client"},
          pool |-> http_manager_get_client(p)]

\* OpenProjectClient.close
client_close(a, p) == [apis |-> {}, pool |-> http_manager_close(p)]

(***************************************************************************)
(* mcp_openproject.py: setup_logging.  structlog hands every record to the *)
(* stdlib logger of its module; logging.basicConfig gives the root logger  *)
(* one handler that writes to sys.stdout and the configured level.         *)
(***************************************************************************)
LogLevels == {"DEBUG", "INFO", "WARNING", "ERROR", "CRITICAL"}

\* getattr(logging, config.log_level)
levelno(level) ==
    CASE level = "DEBUG" -> 10
      [] level = "INFO" -> 20
      [] level = "WARNING" -> 30
      [] level = "ERROR" -> 40
      [] OTHER -> 50

\* the records, out of the ones of the given levels that server v emitted,
\* which the root handler writes to stdout: the ones at or above the
\* configured level; only mcp_openproject.py, which runs the fastapi
\* server, calls setup_logging
stdout_records(v, levels, configured) ==
    IF v = "fastapi"
    THEN { l \in levels : levelno(l) >= levelno(configured) }
    ELSE {}

\* one pass of the fastapi loop: logger.info("STDIO request received") once
\* json.loads returned, logger.error("STDIO request failed") in the generic
\* except clause; the other records of a pass are of level INFO too
fastapi_records(line, p) ==
    IF line.syntax \in {"eof", "blank", "malformed"} THEN {}
    ELSE {"INFO"} \cup (IF p.caught.ok THEN {} ELSE {"ERROR"})

(***************************************************************************)
(* transports/sse.py: SseTransport.  A connection is a client number; its  *)
(* stream is "none" until the server accepts it, then "open", and "closed" *)
(* once close() was called on its writer and wait_closed() awaited.  Its   *)
(* handler (_handle_sse_connection) is "sleeping" between two heartbeats   *)
(* and "done" after its finally clause.  broken holds the connections the  *)
(* peer has dropped: a write to one of them raises.                        *)
(***************************************************************************)
SseClients == 1..MaxSseClients

\* _send_sse_event: a failed write is logged and the writer discarded from
\* _clients; nothing is raised
send_sse_event(clients, c, broken) ==
    [clients |-> IF c \in broken THEN clients \ {c} ELSE clients,
     sent |-> c \notin broken, raised |-> FALSE]

\* a broadcast that sends to one client after the other and gives up at the
\* first write that fails
broadcast_until_failure(clients, broken) ==
    IF clients \cap broken = {}
    THEN [clients |-> clients, delivered |-> clients, raised |-> FALSE]
    ELSE [clients |-> clients, delivered |-> {}, raised |-> TRUE]

\* the sends of broadcast_event to the writers in todo, one per member of
\* the copy of _clients; acc is the outcome so far
RECURSIVE gather_sends(_, _, _)
gather_sends(todo, broken, acc) ==
    IF todo = {} THEN acc
    ELSE LET c == CHOOSE x \in todo : TRUE
             r == send_sse_event(acc.clients, c, broken)
         IN  gather_sends(todo \ {c}, broken,
                 [clients |-> r.clients,
                  delivered |-> IF r.sent THEN acc.delivered \cup {c}
                                ELSE acc.delivered,
                  \* asyncio.gather(..., return_exceptions=True)
                  raised |-> FALSE])

\* broadcast_event
broadcast_event(clients, broken) ==
    gather_sends(clients, broken,
                 [clients |-> clients, delivered |-> {}, raised |-> FALSE])

\* BaseTransport.cleanup with MCPCore.cleanup: a core that has a client
\* calls its cleanup(), which OpenProjectClient does not have
transport_cleanup(core_client) ==
    IF core_client = "None" THEN Returned
    ELSE Raised("AttributeError", 0, "no attribute cleanup")

NoBroadcast ==
    [done |-> FALSE, before |-> {}, failing |-> {}, after |-> {},
     delivered |-> {}, raised |-> FALSE]

\* the transport after __init__
SseConstructed ==
    [pc |-> "constructed", is_running |-> FALSE, clients |-> {},
     stream |-> [c \in SseClients |-> "none"],
     handler |-> [c \in SseClients |-> "none"],
     broken |-> {}, broadcast |-> NoBroadcast]

VARIABLES
    variant,      \* which server's handle_stdio_mode runs
    log_level,    \* config.log_level, the level setup_logging gives the root
                  \* logger
    stdout_logs,  \* the levels of the log records that the handler set up
                  \* by setup_logging wrote to stdout while the loop
                  \* processed last (before the first line: since the start)
    pc,           \* "reading": at the top of the while loop; "returned"
    request_id,   \* the local request_id of handle_stdio_mode
    last,         \* the line the loop processed last
    written,      \* the responses printed to stdout while processing last
    dispatched,   \* the method branch last reached ("none" if none)
    caught,       \* the exception an except clause caught on last, or "none"
    reqs,         \* the backend requests issued while processing last
    validation_codes, \* the error codes with which the loop has answered
                  \* tools/call of an unknown tool or without project_id
    api_key,      \* whether OPENPROJECT_API_KEY is set in the environment
    client,       \* MCPCore.client: "None" or "created"
    call,         \* the last direct call: MCPCore._call_tool or the REST
                  \* endpoint, with the tool name and arguments
    outcome,      \* its result: the tool result's text and the HTTP status
    pool,         \* HTTPClientManager: aclose() calls per client created
    apis,         \* OpenProjectClient: the cached api attributes
    semaphore,    \* HTTPClientManager._semaphore: the permits left
    tasks,        \* the concurrent get_project / get_work_packages calls
    client_op,    \* the client's operation that ran last
    mapped_in,    \* the backend response handed to a mapper
    mapped_out,   \* what the mapper made of it
    report,       \* the get_weekly_report call in progress
    registry,     \* MCPToolRegistry: the entries of _tools and _configs
    registered,   \* the register_tool calls made: the names in the order of
                  \* their first call and the function of each name's last
    invocation,   \* the last execute_tool call and what it came to
    sse,          \* SseTransport with its clients and connection handlers
    transport,    \* StdioTransport with the MCPCore it owns (MCPCore.client
                  \* is the variable client)
    contexts,     \* the tasks that use HTTPClientManager.request_context
    handler       \* the tool function that execute_tool is awaiting

stdio_vars ==
    <<variant, log_level, stdout_logs, pc, request_id, last, written,
      dispatched, validation_codes>>
call_vars == <<api_key, client, call, outcome>>
client_vars == <<pool, apis, semaphore, tasks, client_op>>
data_vars == <<mapped_in, mapped_out, report>>
life_vars == <<transport, contexts, handler>>
tool_vars == <<registry, registered, invocation, sse, life_vars>>
vars == <<stdio_vars, caught, reqs, call_vars, client_vars, data_vars, tool_vars>>

\* the names offered to register_tool
RegistryNames == {"get_project", "get_work_packages"}

\* no execute_tool call yet; latest is the function and timeout the name
\* was registered with last (function 0: never)
NoInvocation ==
    [tool_name |-> Absent, authenticated |-> FALSE, behaviour |-> "none",
     res |-> NoExc, ran |-> 0, middlewares |-> <<>>,
     latest |-> [func |-> 0, timeout |-> FALSE]]

\* BaseTransport.__init__ and StdioTransport.__init__: no core, not running.
\* pc is where the caller (cmd_server) stands; stop is what the last stop()
\* came to and stops how many stop() calls have finished; cleaned tells
\* whether MCPCore.cleanup has completed; late is the tool call made after
\* that, if any.
NoLateCall == [made |-> FALSE, executed |-> FALSE, created |-> FALSE]
TransportConstructed ==
    [pc |-> "constructed", is_running |-> FALSE, mcp_core |-> "None",
     initialized |-> FALSE, cleaned |-> FALSE, stop |-> "none", stops |-> 0,
     late |-> NoLateCall]

\* no task has entered request_context: the pc of each task, and whether
\* it had to wait for its permit
IdleContext == [pc |-> "idle", waited |-> FALSE]
NoContexts == [t \in 1..(MaxConnections + 1) |-> IdleContext]

\* execute_tool awaits no tool function
NoHandler ==
    [pc |-> "none", tool |-> Absent, timeout |-> FALSE, steps |-> 0,
     after_cancel |-> 0, timeouts |-> 0, res |-> 0]

\* an empty registry, no call made, and a transport just constructed
InitTools ==
    /\ registry = <<>>
    /\ registered = [order |-> <<>>, replaced |-> {},
                     latest |-> [n \in RegistryNames \cup {"no_such_tool"} |->
                                    [func |-> 0, timeout |-> FALSE]]]
    /\ invocation = NoInvocation
    /\ sse = SseConstructed
    /\ transport = TransportConstructed
    /\ contexts = NoContexts
    /\ handler = NoHandler

\* a tools/list that names the tools of MCPCore in every server
listed_as_core(v) == {"get_project", "get_work_packages", "get_weekly_report"}

\* the names tools/list answers with: the literal list of the fastapi loop,
\* tool_registry.list_tools() in the optimized server, MCPCore._list_tools
ListedTools(v) ==
    CASE v = "fastapi" -> {"fetch_weekly_report", "get_project_data"}
      [] v = "optimized" ->
             { list_tools(OptimizedRegistry)[i].name :
                   i \in 1..Len(OptimizedRegistry) }
      [] OTHER -> {"get_project", "get_work_packages", "get_weekly_report"}

\* The failure class of a tools/call by its cause: the tool is not one the
\* server lists; a required argument is missing; the registry's timer fired;
\* the backend failed a request; none of these.  A project_id that is
\* present but not positive is left to its own property.
ToolClass(v, line, exc, requests) ==
    IF line.params.name \notin ListedTools(v) THEN "not_found"
    ELSE IF ~line.params.arguments.has_pid
            \/ line.params.name = "create_work_package"
    THEN "invalid"
    ELSE IF line.params.arguments.pid <= 0 THEN "nonpositive"
    ELSE IF exc.status = 408 THEN "timeout"
    ELSE IF \E i \in 1..Len(requests) : requests[i].answer # "ok"
    THEN "upstream"
    ELSE "success"

IsToolCall(line) ==
    /\ line.syntax = "json" /\ line.shape = "object" /\ line.jsonrpc = "2.0"
    /\ line.method = "tools/call" /\ line.params.shape = "dict"

\* The environment's choices while a line is processed.  Only a tools/call
\* with an object for params reaches a tool; the fastapi handlers use the
\* backend and start no timer, the registry tools of the optimized server
\* run under wait_for and issue no backend request.
OraclesFor(v, line) ==
    IF IsToolCall(line)
    THEN IF v = "fastapi"
         THEN { [project |-> Always(p), wps |-> Always(w), timeout |-> FALSE] :
                    p \in Answers, w \in Answers }
         ELSE { [QuietOracle EXCEPT !.timeout = t] : t \in BOOLEAN }
    ELSE {QuietOracle}

NoLine == [syntax |-> "none", shape |-> Absent] @@ NoMembers
NoCallYet == [via |-> "none", name |-> Absent, arguments |-> NoArgs]
NoOutcome == [text |-> "none", status |-> 0]

\* the concurrent calls of the client's fetches the model follows
Tasks == 1..(MaxConnections + 1)
IdleTask ==
    [pc |-> "idle", op |-> "none", tries |-> 0, res |-> "none",
     after_close |-> FALSE]

\* a client just constructed: no HTTP client yet, no cached api, every
\* permit of Semaphore(max_connections) free
InitClient ==
    /\ pool = <<>>
    /\ apis = {}
    /\ semaphore = MaxConnections
    /\ tasks = [t \in Tasks |-> IdleTask]
    /\ client_op = [last |-> "none", closed |-> FALSE]

\* a fetch or a mapping that has not finished
Pending == NotMapped(Raised("pending", 0, "pending"))
NoInput == [kind |-> "none", body |-> "none"]
\* the get_weekly_report call: which client runs it (variant), its week
\* argument, the runs made of each fetch, what each fetch came to, the
\* fetches that failed in the order they failed, and what the call came to
\* with the fetch whose exception it raised
IdleReport ==
    [pc |-> "idle", variant |-> "none", week |-> "None",
     tries |-> [project |-> 0, wps |-> 0],
     project |-> Pending, wps |-> Pending, order |-> <<>>,
     out |-> Pending, raised_from |-> "none"]

\* no mapping and no report under way
InitData ==
    /\ mapped_in = NoInput
    /\ mapped_out = Pending
    /\ report = IdleReport

\* the state before any direct call; the servers that run the stdio loops
\* have their client, so the key is set
InitCalls ==
    /\ client = "None"
    /\ call = NoCallYet
    /\ outcome = NoOutcome

\* server v at the top of its stdio loop, started with LOG_LEVEL level
StdioStart(v, level) ==
    /\ variant = v
    /\ log_level = level
    \* start_server and handle_stdio_mode log at INFO before the loop
    /\ stdout_logs = stdout_records(v, {"INFO"}, level)
    /\ api_key = TRUE
    /\ InitCalls
    /\ InitClient
    /\ InitTools
    /\ InitData
    /\ validation_codes = {}
    /\ pc = "reading"
    /\ request_id = Unbound
    /\ last = NoLine
    /\ written = <<>>
    /\ dispatched = "none"
    /\ caught = NoExc
    /\ reqs = <<>>

\* either server with the default LOG_LEVEL of simple_config.py
Init == \E v \in {"fastapi", "optimized"} : StdioStart(v, "INFO")

Apply(line, p) ==
    /\ pc' = p.pc
    /\ request_id' = p.request_id
    /\ written' = p.written
    /\ dispatched' = p.dispatched
    /\ caught' = p.caught
    /\ reqs' = p.reqs
    /\ last' = line
    /\ stdout_logs' = stdout_records(variant, fastapi_records(line, p), log_level)
    /\ validation_codes' =
           IF IsToolCall(line)
              /\ ToolClass(variant, line, p.caught, p.reqs) \in {"not_found", "invalid"}
           THEN validation_codes
                \cup { p.written[i].code : i \in { j \in 1..Len(p.written) : p.written[j].kind = "error" } }
           ELSE validation_codes
    /\ UNCHANGED <<tool_vars, variant, log_level, call_vars, client_vars, data_vars>>

\* fastapi_mcp_server.handle_stdio_mode reads and processes one line
FastapiReadLine ==
    /\ variant = "fastapi"
    /\ pc = "reading"
    /\ \E line \in Lines : \E oracle \in OraclesFor(variant, line) :
           Apply(line, fastapi_pass(line, request_id, oracle))

\* optimized_mcp_server.handle_stdio_mode reads and processes one line
OptimizedReadLine ==
    /\ variant = "optimized"
    /\ pc = "reading"
    /\ \E line \in Lines : \E oracle \in OraclesFor(variant, line) :
           Apply(line, optimized_pass(line, request_id, oracle))

Next == FastapiReadLine \/ OptimizedReadLine

Spec == Init /\ [][Next]_vars

(***************************************************************************)
(* The fastapi server as mcp_openproject.py starts it in stdio mode, under *)
(* each LOG_LEVEL.                                                         *)
(***************************************************************************)
InitLogging == \E level \in LogLevels : StdioStart("fastapi", level)

NextLogging == FastapiReadLine

SpecLogging == InitLogging /\ [][NextLogging]_vars

(***************************************************************************)
(* The direct calls: MCPCore._call_tool as the MCP SDK invokes it, and the *)
(* REST endpoint.  The stdio loops stand still.                            *)
(***************************************************************************)
\* the stdio loop at rest, no line read
StdioIdle ==
    /\ variant = "fastapi"
    /\ log_level = "INFO"
    /\ stdout_logs = {}
    /\ pc = "reading"
    /\ request_id = Unbound
    /\ last = NoLine
    /\ written = <<>>
    /\ dispatched = "none"
    /\ validation_codes = {}

InitDirect ==
    /\ StdioIdle
    /\ caught = NoExc
    /\ reqs = <<>>
    /\ api_key \in BOOLEAN
    /\ InitCalls
    /\ InitClient
    /\ InitTools
    /\ InitData

\* the oracles that differ in what a direct call can observe
BackendOracles ==
    { [project |-> p, wps |-> w, timeout |-> FALSE] :
        p \in AnswerSeqs, w \in AnswerSeqs }

\* MCPCore._call_tool(name, arguments)
CoreCallTool ==
    \E name \in CoreToolNames, arguments \in Arguments, oracle \in BackendOracles :
        LET r == call_tool(name, arguments, client, api_key, oracle) IN
        /\ client' = r.client
        /\ call' = [via |-> "core", name |-> name, arguments |-> arguments]
        /\ outcome' = [text |-> r.text, status |-> 0]
        /\ caught' = r.caught
        /\ reqs' = r.reqs
        /\ UNCHANGED <<tool_vars, stdio_vars, api_key, client_vars, data_vars>>

\* GET /api/v1/projects/{project_id}: the path parameter is any integer; the
\* server has its client (get_openproject_client answers 503 otherwise)
RestGetProject ==
    /\ api_key
    /\ \E pid \in Pids, oracle \in BackendOracles :
        LET r == rest_get_project(oracle) IN
        /\ call' = [via |-> "rest", name |-> "get_project",
                    arguments |-> [has_pid |-> TRUE, pid |-> pid]]
        /\ outcome' = [text |-> IF r.caught.ok THEN "ok" ELSE "error",
                       status |-> r.status]
        /\ caught' = r.caught
        /\ reqs' = r.reqs
        /\ UNCHANGED <<tool_vars, stdio_vars, api_key, client, client_vars, data_vars>>

NextDirect == CoreCallTool \/ RestGetProject

SpecDirect == InitDirect /\ [][NextDirect]_vars

(***************************************************************************)
(* The backend client on its own: concurrent get_project and               *)
(* get_work_packages calls on one OpenProjectClient, and close().  A call  *)
(* runs to its backend request in one step (nothing before it suspends)    *)
(* and is resumed by the backend's answer.                                 *)
(***************************************************************************)
InitPool ==
    /\ StdioIdle
    /\ caught = NoExc
    /\ reqs = <<>>
    /\ api_key = TRUE
    /\ InitCalls
    /\ InitClient
    /\ InitTools
    /\ InitData

\* a task calls get_project (op = "project") or get_work_packages
\* (op = "wps"): the api attribute is fetched or built, then the request is
\* sent.  Neither operation enters request_context, so no permit is taken.
StartFetch(t, op) ==
    /\ tasks[t].pc = "idle"
    /\ LET g == get_api(op, apis, pool) IN
        /\ Len(g.pool) <= MaxClients
        /\ apis' = g.apis
        /\ pool' = g.pool
    /\ tasks' = [tasks EXCEPT ![t] =
                    [pc |-> "requesting", op |-> op, tries |-> 1,
                     res |-> "none", after_close |-> client_op.closed]]
    /\ client_op' = [client_op EXCEPT !.last = "start"]
    /\ UNCHANGED <<tool_vars, stdio_vars, caught, reqs, call_vars, data_vars, semaphore>>

\* the backend answers the request of task t: the body finishes, and the
\* decorator either runs it again (the api attribute is fetched again and
\* the request re-sent) or lets the result out
CompleteFetch(t, answer) ==
    /\ tasks[t].pc = "requesting"
    /\ answer \in (IF tasks[t].tries = 1 THEN Answers ELSE LaterAnswers)
    /\ LET r == fetch_body(tasks[t].op, answer)
           again == should_retry(r, tasks[t].tries)
           g == IF again THEN get_api(tasks[t].op, apis, pool)
                ELSE [apis |-> apis, pool |-> pool]
       IN  /\ Len(g.pool) <= MaxClients
           /\ apis' = g.apis
           /\ pool' = g.pool
           /\ tasks' = [tasks EXCEPT ![t] =
                  IF again THEN [@ EXCEPT !.tries = @ + 1]
                  ELSE [@ EXCEPT !.pc = "done", !.res = r.type]]
    /\ client_op' = [client_op EXCEPT !.last = "complete"]
    /\ UNCHANGED <<tool_vars, stdio_vars, caught, reqs, call_vars, data_vars, semaphore>>

\* OpenProjectClient.close(), as ServerState.cleanup calls it
Close ==
    /\ LET c == client_close(apis, pool) IN
        /\ apis' = c.apis
        /\ pool' = c.pool
    /\ client_op' = [last |-> "close", closed |-> TRUE]
    /\ UNCHANGED <<tool_vars, stdio_vars, caught, reqs, call_vars, data_vars, semaphore, tasks>>

NextPool ==
    \/ \E t \in Tasks, op \in {"project", "wps"} : StartFetch(t, op)
    \/ \E t \in Tasks, answer \in Answers : CompleteFetch(t, answer)
    \/ Close

SpecPool == InitPool /\ [][NextPool]_vars

(***************************************************************************)
(* The mappers on their own: _extract_project_data and                     *)
(* _extract_work_packages_data applied to one backend response.            *)
(***************************************************************************)
InitMap ==
    /\ StdioIdle
    /\ caught = NoExc
    /\ reqs = <<>>
    /\ api_key = TRUE
    /\ InitCalls
    /\ InitClient
    /\ InitTools
    /\ report = IdleReport
    /\ mapped_in \in { [kind |-> "project", body |-> b] : b \in ProjectBodies }
                     \cup { [kind |-> "page", body |-> b] : b \in Pages }
    /\ mapped_out = Pending

ExtractProject ==
    /\ mapped_in.kind = "project"
    /\ mapped_out.res.type = "pending"
    /\ mapped_out' = extract_project_data(mapped_in.body)
    /\ UNCHANGED <<tool_vars, stdio_vars, caught, reqs, call_vars, client_vars,
                   mapped_in, report>>

ExtractWorkPackages ==
    /\ mapped_in.kind = "page"
    /\ mapped_out.res.type = "pending"
    /\ mapped_out' = extract_work_packages_data(mapped_in.body)
    /\ UNCHANGED <<tool_vars, stdio_vars, caught, reqs, call_vars, client_vars,
                   mapped_in, report>>

NextMap == ExtractProject \/ ExtractWorkPackages

SpecMap == InitMap /\ [][NextMap]_vars

(***************************************************************************)
(* get_weekly_report with its two fetches interleaved.  The pooled client  *)
(* (openproject_client.py) gathers with return_exceptions=True and looks   *)
(* at the results when both fetches are done; the standalone client        *)
(* (mcp_openproject_standalone.py) gathers without it, so the first        *)
(* exception raised leaves gather at once while the other fetch runs on.   *)
(***************************************************************************)
InitReport ==
    /\ StdioIdle
    /\ caught = NoExc
    /\ reqs = <<>>
    /\ api_key = TRUE
    /\ InitCalls
    /\ InitClient
    /\ InitTools
    /\ InitData

StartReport ==
    /\ report.pc = "idle"
    /\ \E v \in {"pooled", "standalone"}, week \in {"None", "", "2025-W41"} :
           report' = [IdleReport EXCEPT !.pc = "gathering", !.variant = v,
                                        !.week = week,
                                        !.tries = [project |-> 1, wps |-> 1]]
    /\ UNCHANGED <<tool_vars, stdio_vars, caught, reqs, call_vars, client_vars,
                   mapped_in, mapped_out>>

\* what a fetch of the report comes to on a backend answer: the mapped body,
\* or the exception its except clauses raise.  The standalone client maps
\* with its own code, which agrees with the pooled mappers on dicts with
\* every member; it wraps every failure in OpenProjectClientError, as the
\* pooled client does for a body it cannot map.
fetch_outcome(v, op, answer, body) ==
    LET m == IF op = "project" THEN extract_project_data(body)
             ELSE extract_work_packages_data(body)
    IN  IF answer = "ok" /\ m.res.ok THEN m
        ELSE IF v = "standalone"
        THEN NotMapped(fetch_body(op, "badbody"))
        ELSE NotMapped(fetch_body(op, IF answer = "ok" THEN "badbody" ELSE answer))

\* one fetch of the report gets its backend answer
FinishFetch(op, answer, body) ==
    /\ report.pc # "idle"
    /\ report[op].res.type = "pending"
    /\ LET f == fetch_outcome(report.variant, op, answer, body)
           again == report.variant = "pooled"
                    /\ should_retry(f.res, report.tries[op])
           r1 == [report EXCEPT ![op] = f,
                     !.order = IF f.res.ok THEN @ ELSE Append(@, op)]
           both == r1.project.res.type # "pending" /\ r1.wps.res.type # "pending"
           g == raise_or_report(report.week, r1.project, r1.wps)
       IN  report' =
             IF again THEN [report EXCEPT !.tries[op] = @ + 1]
             ELSE IF report.pc = "done" THEN r1
             ELSE IF report.variant = "pooled"
             THEN IF both
                  THEN [r1 EXCEPT !.pc = "done", !.out = [res |-> g.res, value |-> g.value],
                                  !.raised_from = g.raised_from]
                  ELSE r1
             ELSE IF ~f.res.ok
             THEN [r1 EXCEPT !.pc = "done", !.out = f, !.raised_from = op]
             ELSE IF both
             THEN [r1 EXCEPT !.pc = "done", !.out = [res |-> g.res, value |-> g.value]]
             ELSE r1
    /\ UNCHANGED <<tool_vars, stdio_vars, caught, reqs, call_vars, client_vars,
                   mapped_in, mapped_out>>

\* the answers and bodies a fetch of the report can get: a failure, or a
\* body.  The report's pages are dicts whose elements are dicts or neither
\* dict nor object, with a subject or without, and without status.
ReportAnswers(v, op) ==
    LET bodies ==
            IF op = "project" THEN ProjectBodies
            ELSE [shape : {"dict"},
                  elements : UNION { [1..n -> { e \in Elements :
                                                  /\ e.shape # "object"
                                                  /\ e.subject # "None"
                                                  /\ e.ref = Absent }] :
                                     n \in 0..MaxElems }]
        complete(b) ==
            /\ b.shape = "dict"
            /\ IF op = "project"
               THEN b.has_id /\ b.name = "value" /\ b.identifier = "value"
               ELSE \A i \in 1..Len(b.elements) :
                       /\ b.elements[i].shape = "dict"
                       /\ b.elements[i].subject = "value"
    IN  { [answer |-> "ok", body |-> b] :
            b \in { x \in bodies : v = "pooled" \/ complete(x) } }
        \cup { [answer |-> a, body |-> NoInput] :
                 a \in Answers \ {"ok", "badbody"} }

NextReport ==
    \/ StartReport
    \/ \E op \in {"project", "wps"} :
          \E a \in ReportAnswers(report.variant, op) :
              FinishFetch(op, a.answer, a.body)

SpecReport == InitReport /\ [][NextReport]_vars

(***************************************************************************)
(* Properties of the stdio loops.                                          *)
(***************************************************************************)
\* the last line was a JSON object, a message with members
IsObject(line) == line.syntax = "json" /\ line.shape = "object"
\* the last line was a JSON-RPC 2.0 envelope
IsEnvelope(line) == IsObject(line) /\ line.jsonrpc = "2.0"

\* the methods offered that the protocol describes as notifications
\* (initialized, notifications/*)
IsNotification(m) ==
    m \in { "initialized", "notifications/initialized",
            "notifications/tools/list_changed",
            "notifications/resources/list_changed" }

\* the methods the protocol names
KnownMethods ==
    { m \in Methods : m \in {"initialize", "tools/list", "tools/call",
                             "resources/list"} \/ IsNotification(m) }

\* C1: a line that is not valid JSON is answered by exactly one response, a
\* JSON-RPC error with code -32700 and id null, and the loop is back at its
\* top, reading the next line.
C1_MalformedLineAnswered ==
    last.syntax = "malformed" =>
        /\ Len(written) = 1
        /\ written[1].kind = "error"
        /\ written[1].code = -32700
        /\ written[1].id = NoneId
        /\ pc = "reading"

\* C1 witness: a malformed line was processed after an earlier message had
\* bound request_id, and the loop reads on.
C1_Witness ==
    /\ last.syntax = "malformed"
    /\ request_id \in Ids
    /\ Len(written) = 1
    /\ pc = "reading"

\* C2: a line that parses as JSON but is not an object whose jsonrpc member
\* is "2.0" is answered by exactly one error with code -32600 carrying the
\* message's own id (null when it has none), no method branch is entered,
\* and the loop reads on.
C2_InvalidEnvelopeAnswered ==
    (last.syntax = "json" /\ ~IsEnvelope(last)) =>
        /\ Len(written) = 1
        /\ written[1].kind = "error"
        /\ written[1].code = -32600
        /\ written[1].id = last.id
        /\ dispatched = "none"
        /\ pc = "reading"

\* C3: an object with jsonrpc "2.0" and no method member is answered with
\* error code -32600 and enters no method branch.
C3_MissingMethodInvalid ==
    (IsEnvelope(last) /\ last.method = Absent) =>
        /\ Len(written) = 1
        /\ written[1].code = -32600
        /\ dispatched = "none"

\* C4: a message that carries an id gets exactly one response, with that id;
\* a message without id (a notification) gets no response.
C4_OneResponsePerId ==
    (IsEnvelope(last) /\ last.method # Absent) =>
        IF last.id # NoneId
        THEN Len(written) = 1 /\ written[1].id = last.id
        ELSE written = <<>>

\* C5: a delivery of the initialized notification, the first or a repeated
\* one, writes no response.
C5_InitializedSilent ==
    (IsEnvelope(last) /\ last.method = "initialized" /\ last.id = NoneId) =>
        written = <<>>

\* C6: a valid envelope whose method is none of initialize, tools/list,
\* tools/call, resources/list, initialized, notifications/* is answered with
\* error -32601 carrying its id, and none of those methods is answered with
\* -32601.
C6_MethodNotFound ==
    (IsEnvelope(last) /\ last.method # Absent) =>
        IF last.method \notin KnownMethods
        THEN /\ Len(written) = 1
             /\ written[1].code = -32601
             /\ written[1].id = last.id
        ELSE \A i \in 1..Len(written) : written[i].code # -32601

\* C7: an exception caught by the generic handler while a message is
\* processed yields exactly one error with code -32603 whose id is the id
\* of that message, and the loop reads on.
C7_InternalErrorAnswered ==
    (caught.type \notin {"none", "JSONDecodeError"}) =>
        /\ Len(written) = 1
        /\ written[1].code = -32603
        /\ written[1].id = last.id
        /\ pc = "reading"

\* C8: the response to a tools/call separates the failure classes: an unknown
\* tool or a missing required argument is answered with a JSON-RPC error,
\* a backend failure or a timeout with a JSON-RPC error whose code is none
\* of the codes used for the former, and a result is written only when the
\* invocation succeeded.
C8_ToolCallFailureClasses ==
    IsToolCall(last) =>
        LET class == ToolClass(variant, last, caught, reqs) IN
        /\ Len(written) = 1
        /\ (class \in {"not_found", "invalid"} => written[1].kind = "error")
        /\ (class \in {"upstream", "timeout"} =>
                /\ written[1].kind = "error"
                /\ written[1].code \notin validation_codes)
        /\ (written[1].kind = "result" => class \in {"success", "nonpositive"})

(***************************************************************************)
(* Properties of the direct calls.                                         *)
(***************************************************************************)
\* C9: a call of get_project, get_work_packages or get_weekly_report whose
\* project_id is an integer <= 0 ends as a validation error and issues no
\* backend request.
C9_NonPositiveProjectIdRejected ==
    (/\ call.via = "core"
     /\ call.name \in {"get_project", "get_work_packages", "get_weekly_report"}
     /\ call.arguments.has_pid /\ call.arguments.pid <= 0
     /\ api_key) =>
        /\ outcome.text = "Invalid arguments"
        /\ reqs = <<>>

\* C10: when the backend answers 404, get_project and get_work_packages fail
\* with the not-found kind (status 404), when it answers 401 with the
\* authentication kind (status 401), and the REST caller sees 404 and 401.
C10_NotFoundDistinctFromAuth ==
    (/\ call.name \in {"get_project", "get_work_packages"}
     /\ call.arguments.pid > 0
     /\ reqs # <<>>) =>
        LET a == reqs[Len(reqs)].answer IN
        /\ (a = "404" =>
                /\ caught.type = "OpenProjectClientError"
                /\ caught.status = 404
                /\ (call.via = "rest" => outcome.status = 404))
        /\ (a = "401" =>
                /\ caught.type = "OpenProjectAuthenticationError"
                /\ caught.status = 401
                /\ (call.via = "rest" => outcome.status = 401))

(***************************************************************************)
(* Properties of the backend client's fetches.                             *)
(***************************************************************************)
\* the last direct call ran get_project or get_work_packages alone, for a
\* positive project id, and reached the backend
IsSingleFetch ==
    /\ call.name \in {"get_project", "get_work_packages"}
    /\ call.arguments.pid > 0
    /\ reqs # <<>>

\* C11: a transient backend failure (network error or 5xx) in get_project or
\* get_work_packages is retried: after a first request that failed that way
\* the operation issues the request again, and it surfaces an error only
\* after max_tries requests.
C11_TransientRetried ==
    (IsSingleFetch /\ reqs[1].answer \in {"500", "neterr"}) =>
        /\ Len(reqs) >= 2
        /\ ~caught.ok => Len(reqs) = max_tries

\* C12: one call of get_project or get_work_packages issues at most
\* max_tries backend requests, and exactly one when the backend answers 401,
\* 404 or a body the mapper rejects.
C12_BoundedNoRetryOnPermanent ==
    IsSingleFetch =>
        /\ Len(reqs) <= max_tries
        /\ reqs[1].answer \in {"401", "404", "badbody"} => Len(reqs) = 1

C12_Witness ==
    /\ IsSingleFetch
    /\ reqs[1].answer \in {"401", "404", "badbody"}
    /\ ~caught.ok
    /\ Len(reqs) = 1

(***************************************************************************)
(* Properties of the pool and of close().                                  *)
(***************************************************************************)
\* the tasks whose backend request is in flight
InFlight == { t \in Tasks : tasks[t].pc = "requesting" }

\* C13: with the pool configured for MaxConnections concurrent backend
\* connections and more get_project calls than that started together, at
\* most MaxConnections backend requests are in flight in every state.
C13_InFlightBounded == Cardinality(InFlight) <= MaxConnections

\* C14: close() can be called any number of times, and over any sequence of
\* calls every HTTP client the pool created is closed exactly once: aclose()
\* is never called twice on a client, and when close() has returned no
\* client is left open.
C14_ClosedExactlyOnce ==
    /\ \A i \in 1..Len(pool) : pool[i] <= 1
    /\ client_op.last = "close" => \A i \in 1..Len(pool) : pool[i] = 1

C14_Witness ==
    /\ client_op.last = "close"
    /\ Len(pool) = 2
    /\ \A i \in 1..Len(pool) : pool[i] = 1

\* C15: a get_project or get_work_packages call made after close() fails
\* with a client-closed error and sends no backend request.
C15_ClosedClientRefuses ==
    \A t \in Tasks :
        tasks[t].after_close =>
            /\ tasks[t].pc = "done"
            /\ tasks[t].res = "ClientClosed"

(***************************************************************************)
(* Properties of the mappers.                                              *)
(***************************************************************************)
\* C19: the mapped work_packages sequence has as many entries as the
\* backend page's element list, in the backend's order: entry i comes from
\* element i, whatever the shapes of the elements.
C19_PageOrderKept ==
    (mapped_in.kind = "page" /\ mapped_out.res.ok) =>
        /\ Len(mapped_out.value) = Len(mapped_in.body.elements)
        /\ \A i \in 1..Len(mapped_out.value) :
               i <= Len(mapped_in.body.elements)
               /\ mapped_out.value[i].id = mapped_in.body.elements[i].id

\* C20: mapping a project without name or identifier, or a page with a work
\* package without subject, fails, for the structured-object shape and for
\* the raw-mapping shape; no entity with a substituted value is produced.
C20_MissingRequiredRejected ==
    LET b == mapped_in.body
        lacks ==
            \/ /\ mapped_in.kind = "project"
               /\ b.shape \in {"object", "dict"}
               /\ (b.name = Absent \/ b.identifier = Absent)
            \/ /\ mapped_in.kind = "page"
               /\ \E i \in 1..Len(b.elements) :
                      /\ b.elements[i].shape \in {"object", "dict"}
                      /\ b.elements[i].subject = Absent
    IN  (lacks /\ mapped_out.res.type # "pending") => ~mapped_out.res.ok

(***************************************************************************)
(* Properties of get_weekly_report.                                        *)
(***************************************************************************)
\* the fetch of the report has failed
FetchFailed(op) == ~report[op].res.ok /\ report[op].res.type # "pending"

\* C16: get_weekly_report never returns a partially populated report: a
\* report is returned only when both fetches succeeded, with their results;
\* when a fetch failed the call fails with the error of a failed fetch.
C16_NoPartialReport ==
    report.pc = "done" =>
        IF report.out.res.ok
        THEN /\ report.project.res.ok /\ report.wps.res.ok
             /\ report.out.value.project = report.project.value
             /\ report.out.value.work_packages = report.wps.value
        ELSE /\ report.raised_from \in {"project", "wps"}
             /\ FetchFailed(report.raised_from)
             /\ report.out.res = report[report.raised_from].res

C16_Witness ==
    /\ report.pc = "done"
    /\ report.variant = "pooled"
    /\ report.project.res.ok
    /\ FetchFailed("wps")
    /\ ~report.out.res.ok
    /\ report.raised_from = "wps"

\* C17: when both fetches of a weekly report fail, the error surfaced is
\* that of the fetch that failed first.
C17_FirstErrorSurfaced ==
    (report.pc = "done" /\ Len(report.order) = 2) =>
        report.raised_from = report.order[1]

C21_MappedProjectIdPositive ==
    (mapped_in.kind = "project" /\ mapped_out.res.ok) =>
        mapped_out.value.id > 0

\* C22: for status, priority and assignee of a work package, in the object
\* shape and in the dict shape: a nested object maps to its display name and
\* any other shape (absent, null, nested mapping, list, scalar) maps to
\* absent, and the mapping of the work package and of the list does not fail.
C22_NestedRefsDegrade ==
    LET es == mapped_in.body.elements IN
    (/\ mapped_in.kind = "page"
     /\ mapped_out.res.type # "pending"
     /\ \A i \in 1..Len(es) :
            es[i].shape \in {"object", "dict"} /\ es[i].subject = "value") =>
        /\ mapped_out.res.ok
        /\ Len(mapped_out.value) = Len(es)
        /\ \A i \in 1..Len(es) :
               mapped_out.value[i].status =
                   IF es[i].ref = "object" THEN "name" ELSE "None"

(***************************************************************************)
(* The tool registry on its own: register_tool as the @mcp_tool decorator  *)
(* calls it, and execute_tool.  registered keeps what the calls asked for, *)
(* independently of the registry's dicts.                                  *)
(***************************************************************************)
InitRegistry ==
    /\ StdioIdle
    /\ caught = NoExc
    /\ reqs = <<>>
    /\ api_key = TRUE
    /\ InitCalls
    /\ InitClient
    /\ InitTools
    /\ InitData

\* @mcp_tool(name=..., timeout=...) applied to handler function d
RegisterTool ==
    \E name \in RegistryNames, d \in 1..MaxHandlers, t \in BOOLEAN :
        /\ registry' = register_tool(registry, MCPToolConfig(name, d, t), d)
        /\ registered' =
               IF registered.latest[name].func = 0
               THEN [registered EXCEPT !.order = Append(@, name),
                                       !.latest[name] = [func |-> d, timeout |-> t]]
               ELSE [registered EXCEPT !.replaced = @ \cup {name},
                                       !.latest[name] = [func |-> d, timeout |-> t]]
        /\ UNCHANGED <<stdio_vars, caught, reqs, call_vars, client_vars,
                       data_vars, invocation, sse, life_vars>>

\* tool_registry.execute_tool(tool_name, params, context)
ExecuteTool ==
    \E tool_name \in RegistryNames \cup {"no_such_tool"},
       authenticated \in BOOLEAN, behaviour \in Behaviours :
        LET r == execute_tool(registry, tool_name, authenticated, behaviour) IN
        /\ invocation' =
               [tool_name |-> tool_name, authenticated |-> authenticated,
                behaviour |-> behaviour, res |-> r.res, ran |-> r.ran,
                middlewares |-> r.middlewares,
                latest |-> registered.latest[tool_name]]
        /\ UNCHANGED <<stdio_vars, caught, reqs, call_vars, client_vars,
                       data_vars, registry, registered, sse, life_vars>>

NextRegistry == RegisterTool \/ ExecuteTool

SpecRegistry == InitRegistry /\ [][NextRegistry]_vars

\* C23: list_tools returns one descriptor per registered name, in the order
\* in which the names were registered first, each with the description of
\* the name's last registration; a handler that execute_tool awaits is the
\* one the name was registered with last.
C23_ListInFirstRegistrationOrder ==
    LET l == list_tools(registry) IN
    /\ Len(l) = Len(registered.order)
    /\ \A i \in 1..Len(l) :
           /\ l[i].name = registered.order[i]
           /\ l[i].description = registered.latest[l[i].name].func
    /\ invocation.ran # 0 => invocation.ran = invocation.latest.func

\* a name that is not the last of the list was registered again, with
\* another handler, and the new handler ran
C23_Witness ==
    /\ Len(registry) = 2
    /\ registry[1].name \in registered.replaced
    /\ registry[1].func = 2
    /\ invocation.tool_name = registry[1].name
    /\ invocation.res.ok
    /\ invocation.ran = 2

\* the answer by which each server says that it knows no tool of the name:
\* the fastapi loop answers with the result {"error": "Unknown tool: ..."},
\* the optimized loop reports the registry's 404
StdioToolNotFound ==
    IF variant = "fastapi"
    THEN written = <<Result(last.id, "unknown_tool")>>
    ELSE ~caught.ok /\ caught.status = 404

C25_OutcomeMatchesCause ==
    LET i == invocation
        is_registered == i.latest.func # 0
        timed_out == is_registered /\ i.latest.timeout /\ i.behaviour = "slow"
        failed == is_registered /\ i.behaviour \in {"raises", "raises_timeout"}
    IN  (i.tool_name # Absent /\ i.authenticated) =>
            /\ i.res.status = 404 <=> ~is_registered
            /\ i.res.status = 404 => i.ran = 0
            /\ i.res.status = 408 <=> timed_out
            /\ i.res.status = 500 <=> failed
            /\ i.res.ok <=> (is_registered /\ ~timed_out /\ ~failed)

\* C26: the fastapi loop answers each request line within the pass that
\* read it: once a line that is neither blank nor the end of input has been
\* processed, its one response has been printed and the loop is back at
\* readline, whatever the line was (a valid request, a malformed line, a
\* tool call that failed).  The next line is thus read only after the
\* response to this one was written.
C26_AnsweredBeforeNextRead ==
    (variant = "fastapi" /\ last.syntax \in {"malformed", "json"}) =>
        /\ Len(written) = 1
        /\ pc = "reading"
        /\ (IsEnvelope(last) /\ caught.ok) => written[1].id = last.id

\* a tool call whose backend request failed has been answered with an error
C26_Witness ==
    /\ variant = "fastapi"
    /\ IsToolCall(last)
    /\ ~caught.ok
    /\ reqs # <<>>
    /\ Len(written) = 1
    /\ written[1].kind = "error"

\* C28: in both stdio loops the end of input ends the loop through break,
\* with no response written and no exception caught, and a line that is
\* empty after strip() is skipped: nothing is written and the loop reads on.
C28_EofEndsBlankSkipped ==
    /\ last.syntax = "eof" => (pc = "returned" /\ written = <<>> /\ caught.ok)
    /\ last.syntax = "blank" => (pc = "reading" /\ written = <<>> /\ caught.ok)

\* the input ended after the loop had processed a request
C28_Witness ==
    /\ last.syntax = "eof"
    /\ request_id \in Ids
    /\ pc = "returned"

\* C27: in stdio mode the fastapi server writes nothing but JSON-RPC
\* responses to stdout: no log record reaches stdout, before the first line
\* or while a line is processed.
C27_NoLogOnStdout == stdout_logs = {}

(***************************************************************************)
(* The SSE transport: start(), the connection handlers, broadcast_event    *)
(* and stop().  A handler runs from accept to its first sleep in one step  *)
(* and from one sleep to the next in one step; stop() takes two steps, the *)
(* loop that closes the clients (it awaits wait_closed) and the rest.  The *)
(* server accepts connections until stop() has closed it.                  *)
(***************************************************************************)
InitSse ==
    /\ StdioIdle
    /\ caught = NoExc
    /\ reqs = <<>>
    /\ api_key = TRUE
    /\ InitCalls
    /\ InitClient
    /\ InitTools
    /\ InitData

\* the writers a write fails on: the peer is gone, or the writer is closed
FailingWriters == sse.broken \cup { c \in SseClients : sse.stream[c] = "closed" }

SseStep(next) ==
    /\ sse' = next
    /\ UNCHANGED <<stdio_vars, caught, reqs, call_vars, client_vars,
                   data_vars, registry, registered, invocation, life_vars>>

\* SseTransport.start, then serve() listens
SseStart ==
    /\ sse.pc = "constructed"
    /\ SseStep([sse EXCEPT !.pc = "serving", !.is_running = TRUE])

\* _handle_sse_connection for a new connection c, up to its first sleep:
\* the writer is added, the headers, the connected event and the first
\* heartbeat are written.  When the peer is gone before the headers are
\* drained the except clause logs and the finally clause discards and
\* closes the writer.
SseAccept(c) ==
    /\ sse.pc \in {"serving", "stopping"}
    /\ sse.stream[c] = "none"
    /\ \E fails \in BOOLEAN :
           SseStep(IF fails
                   THEN [sse EXCEPT !.stream[c] = "closed",
                                    !.handler[c] = "done",
                                    !.broken = @ \cup {c}]
                   ELSE [sse EXCEPT !.clients = @ \cup {c},
                                    !.stream[c] = "open",
                                    !.handler[c] = "sleeping"])

\* the peer of an open connection goes away
SseDisconnect(c) ==
    /\ sse.stream[c] = "open"
    /\ c \notin sse.broken
    /\ SseStep([sse EXCEPT !.broken = @ \cup {c}])

\* the handler of c wakes from asyncio.sleep(30): while self._is_running it
\* sends a heartbeat and sleeps again, else it leaves the loop and its
\* finally clause discards and closes the writer
SseHeartbeat(c) ==
    /\ sse.handler[c] = "sleeping"
    /\ SseStep(IF sse.is_running
               THEN [sse EXCEPT !.clients =
                         send_sse_event(sse.clients, c, FailingWriters).clients]
               ELSE [sse EXCEPT !.clients = @ \ {c},
                                !.stream[c] = "closed",
                                !.handler[c] = "done"])

\* broadcast_event(event, data)
SseBroadcast ==
    /\ sse.pc \in {"serving", "stopping"}
    /\ LET r == broadcast_event(sse.clients, FailingWriters) IN
       SseStep([sse EXCEPT !.clients = r.clients,
                           !.broadcast =
                               [done |-> TRUE, before |-> sse.clients,
                                failing |-> sse.clients \cap FailingWriters,
                                after |-> r.clients,
                                delivered |-> r.delivered,
                                raised |-> r.raised]])

\* stop() with clients: close() and wait_closed() for every writer in a
\* copy of _clients; other coroutines run while wait_closed is awaited
SseStopClients ==
    /\ sse.pc = "serving"
    /\ sse.clients # {}
    /\ SseStep([sse EXCEPT !.pc = "stopping",
                           !.stream = [c \in SseClients |->
                                          IF c \in sse.clients THEN "closed"
                                          ELSE sse.stream[c]]])

\* stop() after the loop, or all of stop() when there is no client:
\* _clients.clear(), the server is closed, cleanup()
SseStopReturns ==
    /\ sse.pc = "stopping" \/ (sse.pc = "serving" /\ sse.clients = {})
    /\ SseStep(IF transport_cleanup(client).ok
               THEN [sse EXCEPT !.pc = "stopped", !.clients = {},
                                !.is_running = FALSE]
               ELSE [sse EXCEPT !.pc = "stop_raised", !.clients = {}])

NextSse ==
    \/ SseStart
    \/ \E c \in SseClients : SseAccept(c)
    \/ \E c \in SseClients : SseDisconnect(c)
    \/ \E c \in SseClients : SseHeartbeat(c)
    \/ SseBroadcast
    \/ SseStopClients
    \/ SseStopReturns

SpecSse == InitSse /\ [][NextSse]_vars

\* C29: a broadcast removes from the set of clients exactly the clients the
\* write failed on; every other client of the set stays in it and was sent
\* the event; the broadcast raises nothing.
C29_BroadcastIsolatesFailures ==
    LET b == sse.broadcast IN
    b.done =>
        /\ b.after = b.before \ b.failing
        /\ b.delivered = b.before \ b.failing
        /\ ~b.raised

\* a broadcast to two clients, one of which had gone away
C29_Witness ==
    /\ sse.broadcast.done
    /\ sse.broadcast.failing # {}
    /\ sse.broadcast.delivered # {}

\* C30: once stop() has returned the set of clients is empty and no
\* connection that was accepted is still open.
C30_StopClosesEveryClient ==
    sse.pc = "stopped" =>
        /\ sse.clients = {}
        /\ \A c \in SseClients : sse.stream[c] # "open"


(***************************************************************************)
(* transports/base.py, transports/stdio.py, cli.py cmd_server: the life of *)
(* a transport and of the MCPCore it owns.  The handlers that              *)
(* setup_server_tools registers are bound methods of the core, so the      *)
(* server that serve() runs keeps calling MCPCore._call_tool whatever the  *)
(* transport does with its own reference.                                  *)
(***************************************************************************)
\* the stop() calls followed
MaxStops == 2

\* the backends offered to a tool call made while the transport serves
LifecycleOracles ==
    { [project |-> Always(a), wps |-> Always("ok"), timeout |-> FALSE] :
        a \in {"ok", "404"} }

\* BaseTransport.cleanup: MCPCore.cleanup when the transport has a core,
\* then the core is dropped and _is_running cleared; an exception of
\* MCPCore.cleanup leaves both as they were
cleanup(tr, core_client) ==
    IF tr.mcp_core = "None"
    THEN [tr |-> [tr EXCEPT !.is_running = FALSE], raised |-> FALSE]
    ELSE IF transport_cleanup(core_client).ok
    THEN [tr |-> [tr EXCEPT !.mcp_core = "None", !.is_running = FALSE,
                            !.cleaned = TRUE],
          raised |-> FALSE]
    ELSE [tr |-> tr, raised |-> TRUE]

InitLifecycle == InitDirect

LifeStep(next) ==
    /\ transport' = next
    /\ UNCHANGED <<stdio_vars, caught, reqs, call_vars, client_vars,
                   data_vars, registry, registered, invocation, sse,
                   contexts, handler>>

\* StdioTransport.start: _is_running is set, then initialize_core builds
\* the MCPCore and awaits initialize(), which raises ValueError when
\* config.validate() fails
TransportStart ==
    /\ transport.pc = "constructed"
    /\ \E valid \in BOOLEAN :
        LifeStep([transport EXCEPT
                    !.pc = IF valid THEN "started" ELSE "start_raised",
                    !.is_running = TRUE, !.mcp_core = "core",
                    !.initialized = valid])

\* serve() up to server.run: the tools of the core are registered
TransportServe ==
    /\ transport.pc = "started"
    /\ transport.mcp_core = "core"
    /\ LifeStep([transport EXCEPT !.pc = "serving"])

\* a tools/call that server.run hands to MCPCore._call_tool
TransportCallTool ==
    /\ transport.pc = "serving"
    /\ \E name \in CoreToolNames, arguments \in Arguments,
          oracle \in LifecycleOracles :
        LET r == call_tool(name, arguments, client, api_key, oracle) IN
        /\ client' = r.client
        /\ call' = [via |-> "core", name |-> name, arguments |-> arguments]
        /\ outcome' = [text |-> r.text, status |-> 0]
        /\ caught' = r.caught
        /\ reqs' = r.reqs
        /\ transport' =
             IF transport.cleaned
             THEN [transport EXCEPT !.late =
                     [made |-> TRUE,
                      executed |-> @.executed \/ r.reqs # <<>>,
                      created |-> @.created
                                  \/ (client = "None" /\ r.client = "created")]]
             ELSE transport
        /\ UNCHANGED <<stdio_vars, api_key, client_vars, data_vars, registry,
                       registered, invocation, sse, contexts, handler>>

\* server.run returns and the finally clause of serve() awaits cleanup()
TransportServeEnds ==
    /\ transport.pc = "serving"
    /\ LifeStep([cleanup(transport, client).tr EXCEPT !.pc = "served"])

\* StdioTransport.stop, as the finally clause of cmd_server or any other
\* holder of the transport calls it: the event is set and cleanup() awaited
TransportStop ==
    /\ transport.pc \in {"start_raised", "started", "serving", "served"}
    /\ transport.stops < MaxStops
    /\ LET r == cleanup(transport, client) IN
       LifeStep([r.tr EXCEPT !.stops = @ + 1,
                             !.stop = IF r.raised THEN "raised"
                                      ELSE "returned"])

NextLifecycle ==
    \/ TransportStart
    \/ TransportServe
    \/ TransportCallTool
    \/ TransportServeEnds
    \/ TransportStop

SpecLifecycle == InitLifecycle /\ [][NextLifecycle]_vars

\* C31: once MCPCore.cleanup has completed the core is closed: a tool call
\* made afterwards is not executed (no backend request is issued for it)
\* and creates no backend client.
C31_ClosedAfterCleanup ==
    ~transport.late.executed /\ ~transport.late.created

\* C40: once a stop() has finished it has returned without raising, the
\* transport is not running, has no core, and the backend client that tool
\* calls created is closed (a second stop() changes nothing of this); and
\* the transport is running only while its core is initialized.
C40_StoppedIsClean ==
    /\ transport.stops > 0 =>
         /\ transport.stop = "returned"
         /\ ~transport.is_running
         /\ transport.mcp_core = "None"
         /\ client # "created"
    /\ transport.is_running => transport.initialized


(***************************************************************************)
(* security.py validate_week_format and fastapi_mcp_server.py              *)
(* WeeklyReportRequest.week: the two regular expressions a week string is  *)
(* matched against.  A week string is modelled as "<year>-W<wk>", year and *)
(* wk being sequences of decimal digits.                                   *)
(***************************************************************************)
YearStrings ==
    { <<a, b, c, d>> : a \in {1, 2}, b \in {0, 1}, c \in {1, 2, 3},
                       d \in {0, 5, 9} }
WeekDigits == {0, 1, 3, 4, 5, 9}
WkStrings ==
    { <<a>> : a \in WeekDigits } \cup { <<a, b>> : a, b \in WeekDigits }
WeekStrings == { [year |-> y, wk |-> w] : y \in YearStrings, w \in WkStrings }

\* a digit string against a sequence of character classes
re_match(str, classes) ==
    /\ Len(str) = Len(classes)
    /\ \A i \in 1..Len(str) : str[i] \in classes[i]

\* ([1-9]|[1-4][0-9]|5[0-3])
week_group(wk) ==
    \/ re_match(wk, <<1..9>>)
    \/ re_match(wk, <<1..4, 0..9>>)
    \/ re_match(wk, <<{5}, 0..3>>)

\* SecurityManager.validate_week_format:
\* re.match(r"^20[2-9][0-9]-W([1-9]|[1-4][0-9]|5[0-3])$", week)
validate_week_format(week) ==
    re_match(week.year, <<{2}, {0}, 2..9, 0..9>>) /\ week_group(week.wk)

\* WeeklyReportRequest.week: pattern=r"^202[0-9]-W([1-9]|[1-4][0-9]|5[0-3])$"
WeeklyReportRequest_week(week) ==
    re_match(week.year, <<{2}, {0}, {2}, 0..9>>) /\ week_group(week.wk)

Verdict(accepted) == IF accepted THEN "accepted" ELSE "rejected"

InitWeek ==
    /\ StdioIdle
    /\ caught = NoExc
    /\ reqs = <<>>
    /\ api_key = TRUE
    /\ InitCalls
    /\ InitClient
    /\ InitTools
    /\ report = IdleReport
    /\ mapped_in \in { [kind |-> "week", body |-> w] : w \in WeekStrings }
    /\ mapped_out = [security |-> "pending", request |-> "pending"]

\* SecurityManager.validate_week_format(week)
SecurityValidateWeek ==
    /\ mapped_out.security = "pending"
    /\ mapped_out' = [mapped_out EXCEPT
                        !.security = Verdict(validate_week_format(mapped_in.body))]
    /\ UNCHANGED <<tool_vars, stdio_vars, caught, reqs, call_vars, client_vars,
                   mapped_in, report>>

\* WeeklyReportRequest(project_id=..., week=week)
RequestValidateWeek ==
    /\ mapped_out.request = "pending"
    /\ mapped_out' = [mapped_out EXCEPT
                        !.request = Verdict(WeeklyReportRequest_week(mapped_in.body))]
    /\ UNCHANGED <<tool_vars, stdio_vars, caught, reqs, call_vars, client_vars,
                   mapped_in, report>>

NextWeek == SecurityValidateWeek \/ RequestValidateWeek

SpecWeek == InitWeek /\ [][NextWeek]_vars

\* the weeks the specification accepts: YYYY-Wnn, four digits, two digits,
\* 1 <= nn <= 53
WellFormedWeek(week) ==
    /\ Len(week.year) = 4
    /\ Len(week.wk) = 2
    /\ 10 * week.wk[1] + week.wk[2] \in 1..53

\* C32: each validator accepts a week exactly when it is YYYY-Wnn with a
\* four-digit year and a two-digit nn, 1 <= nn <= 53, and the validators
\* give the same verdict on every week.
C32_WeekAcceptedIffWellFormed ==
    LET expected == Verdict(WellFormedWeek(mapped_in.body)) IN
    /\ mapped_out.security \in {"pending", expected}
    /\ mapped_out.request \in {"pending", expected}
    /\ mapped_out.security = "pending" \/ mapped_out.request = "pending"
       \/ mapped_out.security = mapped_out.request


(***************************************************************************)
(* openproject_client.py: HTTPClientManager.request_context, as the tasks  *)
(* that enter it drive it.  `async with self._semaphore` takes a permit    *)
(* (the task waits while there is none), the body gets the pooled client   *)
(* and runs the caller's request, and leaving the block by any path gives  *)
(* the permit back.                                                        *)
(***************************************************************************)
\* how the body of a context ends: the request returns, it raises
\* httpx.RequestError (re-raised as OpenProjectConnectionError), it raises
\* anything else, or the task is cancelled
Exits == {"returned", "request_error", "raised", "cancelled"}

\* Semaphore.locked(): no permit is left
locked_always(permits) == TRUE
locked(permits) == permits = 0

\* Semaphore.__aexit__: release(), whatever ended the block
aexit_on_return_only(permits, exit) ==
    IF exit = "returned" THEN permits + 1 ELSE permits
aexit(permits, exit) == permits + 1

InitContext == InitPool

\* what request_context does once the task has its permit: get_client()
\* and the yield
ContextOpens(t, waited) ==
    /\ semaphore' = semaphore - 1
    /\ pool' = http_manager_get_client(pool)
    /\ contexts' = [contexts EXCEPT ![t] = [pc |-> "open", waited |-> waited]]
    /\ client_op' = [client_op EXCEPT !.last = "enter"]

ContextStep ==
    UNCHANGED <<stdio_vars, caught, reqs, call_vars, data_vars, apis, tasks,
                registry, registered, invocation, sse, transport, handler>>

\* task t enters request_context: with a permit free it goes on to the
\* yield, otherwise it is suspended in acquire()
EnterContext(t) ==
    /\ contexts[t].pc = "idle"
    /\ IF locked(semaphore)
       THEN /\ contexts' = [contexts EXCEPT ![t] =
                               [pc |-> "waiting", waited |-> TRUE]]
            /\ client_op' = [client_op EXCEPT !.last = "wait"]
            /\ UNCHANGED <<semaphore, pool>>
       ELSE ContextOpens(t, FALSE)
    /\ ContextStep

\* a task suspended in acquire() is resumed when a permit is free
AcquireContext(t) ==
    /\ contexts[t].pc = "waiting"
    /\ ~locked(semaphore)
    /\ ContextOpens(t, TRUE)
    /\ ContextStep

\* the body of the context of task t ends
ExitContext(t, exit) ==
    /\ contexts[t].pc = "open"
    /\ semaphore' = aexit(semaphore, exit)
    /\ contexts' = [contexts EXCEPT ![t] = IdleContext]
    /\ client_op' = [client_op EXCEPT !.last = exit]
    /\ UNCHANGED pool
    /\ ContextStep

NextContext ==
    \/ \E t \in Tasks : EnterContext(t)
    \/ \E t \in Tasks : AcquireContext(t)
    \/ \E t \in Tasks, exit \in Exits : ExitContext(t, exit)

SpecContext == InitContext /\ [][NextContext]_vars

\* The request of an open context ends (the backend answers, or the
\* timeout of the HTTP client runs out), and the event loop resumes a task
\* whose acquire() can go on.
FairSpecContext ==
    /\ SpecContext
    /\ \A t \in Tasks : WF_vars(\E exit \in Exits : ExitContext(t, exit))
    /\ \A t \in Tasks : SF_vars(AcquireContext(t))

OpenContexts == { t \in Tasks : contexts[t].pc = "open" }

\* C33: the permits taken are exactly the open request contexts, whatever
\* path the contexts before them were left by; with no context open all
\* MaxConnections permits are free.
C33_PermitsMatchOpenContexts ==
    /\ semaphore = MaxConnections - Cardinality(OpenContexts)
    /\ semaphore >= 0

\* a context was left by an exception and every permit is free again
C33_Witness ==
    /\ client_op.last \in {"request_error", "raised", "cancelled"}
    /\ OpenContexts = {}
    /\ semaphore = MaxConnections

\* C34: a task that enters request_context while every permit is taken
\* waits (it is not failed), and eventually has its permit and its context
\* open.
C34_WaiterEventuallyAcquires ==
    \A t \in Tasks : (contexts[t].pc = "waiting") ~> (contexts[t].pc = "open")

\* a task that had to wait has its context open, every permit taken
C34_Witness ==
    /\ semaphore = 0
    /\ \E t \in Tasks : contexts[t].pc = "open" /\ contexts[t].waited


\* the HTTP clients of the pool that aclose() was not called on
OpenHttpClients == { i \in 1..Len(pool) : pool[i] = 0 }

\* C35: the pooled HTTP client is created lazily and singly: there is none
\* before the first operation of the backend client; however the first
\* operations of concurrent tasks interleave, one HTTP client has been
\* created as long as close() was not called; and at no time is there more
\* than one HTTP client that is not closed.
C35_SingleLazyHttpClient ==
    /\ client_op.last = "none" => pool = <<>>
    /\ ~client_op.closed => Len(pool) <= 1
    /\ Cardinality(OpenHttpClients) <= 1

\* two tasks have their first requests in flight on the one HTTP client
C35_Witness ==
    /\ ~client_op.closed
    /\ Len(pool) = 1
    /\ Cardinality({ t \in Tasks : tasks[t].pc = "requesting" }) >= 2


(***************************************************************************)
(* mcp_toolkit.py execute_tool, followed from the call of the tool         *)
(* function to its end.  The tool functions of optimized_mcp_server.py     *)
(* await asyncio.sleep once and then build their result: they issue no     *)
(* backend request and enter no request_context.  With a timeout           *)
(* configured the function runs under asyncio.wait_for, which cancels it   *)
(* when the timer fires first and raises asyncio.TimeoutError once the     *)
(* cancellation is done.                                                   *)
(***************************************************************************)
\* a timer that fires and leaves the function running
timeout_without_cancel(h) ==
    [h EXCEPT !.res = 408, !.timeouts = @ + 1]

\* asyncio.wait_for when the timer fires: the function is cancelled at its
\* await, and except asyncio.TimeoutError raises HTTPException(408)
wait_for_timeout(h) ==
    [h EXCEPT !.pc = "cancelled", !.res = 408, !.timeouts = @ + 1]

HandlerStep(next) ==
    /\ handler' = next
    /\ UNCHANGED <<stdio_vars, caught, reqs, call_vars, client_vars,
                   data_vars, registry, registered, invocation, sse,
                   transport, contexts>>

\* execute_tool for a registered tool and an authenticated context, up to
\* the await of the tool function: the function has run to its sleep
ExecuteStarts ==
    /\ handler.pc # "sleeping"
    /\ \E i \in 1..Len(registry) :
        HandlerStep([pc |-> "sleeping", tool |-> registry[i].name,
                     timeout |-> registry[i].config.timeout, steps |-> 1,
                     after_cancel |-> 0, timeouts |-> 0, res |-> 0])

\* the sleep is over: the function builds its result and returns it, and
\* execute_tool returns {"data": result}
HandlerResumes ==
    /\ handler.pc = "sleeping"
    /\ HandlerStep([handler EXCEPT
                      !.pc = IF handler.timeouts = 0 THEN "returned" ELSE @,
                      !.steps = @ + 1,
                      !.after_cancel = IF handler.timeouts = 0 THEN @ ELSE @ + 1,
                      !.res = IF handler.timeouts = 0 THEN 200 ELSE @])

\* the timer of wait_for fires while the function sleeps
TimeoutElapses ==
    /\ handler.pc = "sleeping"
    /\ handler.timeout
    /\ HandlerStep(wait_for_timeout(handler))

NextTimeout ==
    \/ RegisterTool
    \/ ExecuteStarts
    \/ HandlerResumes
    \/ TimeoutElapses

SpecTimeout == InitRegistry /\ [][NextTimeout]_vars

\* C36: when the timeout of a tool elapses the tool function is cancelled:
\* it takes no step afterwards and issues no backend request, no permit of
\* the pool stays taken, and the caller gets the timeout (408) once; a
\* function that returned in time was never timed out.
C36_TimeoutCancelsHandler ==
    /\ handler.timeouts > 0 =>
         /\ handler.pc = "cancelled"
         /\ handler.timeouts = 1
         /\ handler.res = 408
         /\ handler.after_cancel = 0
         /\ handler.steps = 1
         /\ reqs = <<>>
         /\ semaphore = MaxConnections
    /\ handler.pc = "returned" => handler.res = 200 /\ handler.timeouts = 0

\* the timer fired on a sleeping tool function registered with a timeout
C36_Witness ==
    /\ handler.pc = "cancelled"
    /\ handler.timeout
    /\ handler.timeouts = 1


\* what made a call of MCPCore._call_tool fail, read off the call and the
\* backend's answers: no API key to build the client with, an unknown tool
\* or no project_id, an error status or a network failure of the backend
CoreArgumentsInvalid ==
    \/ call.name \notin {"get_project", "get_work_packages", "get_weekly_report"}
    \/ ~truthy_project_id(call.arguments)
BackendFailed ==
    \E i \in 1..Len(reqs) : reqs[i].answer \in {"401", "404", "500", "neterr"}

\* C37: MCPCore._call_tool always returns a result, and a failure carries
\* exactly the prefix of its class: 'Invalid arguments' for an unknown tool
\* or a missing project_id, 'OpenProject API error' for a failure of the
\* backend client (the backend refuses or cannot be reached, or the client
\* has no API key), 'Unexpected error' for anything else.
C37_FailureClassified ==
    call.via = "core" =>
        /\ outcome.text \in {"ok", "Invalid arguments",
                             "OpenProject API error", "Unexpected error"}
        /\ caught.ok <=> outcome.text = "ok"
        /\ ~api_key => outcome.text = "OpenProject API error"
        /\ api_key /\ CoreArgumentsInvalid =>
               outcome.text = "Invalid arguments"
        /\ ~caught.ok /\ BackendFailed =>
               outcome.text = "OpenProject API error"
        /\ outcome.text = "Unexpected error" =>
               api_key /\ ~CoreArgumentsInvalid /\ ~BackendFailed


\* C38: for a registered tool (every tool requires authentication) and a
\* context that is not authenticated execute_tool raises 401, not 500, and
\* awaits no handler and no middleware after auth_middleware; for an
\* authenticated context the middlewares run in the order in which
\* setup_default_middlewares added them, before the handler.
C38_AuthBeforeHandler ==
    invocation.latest.func # 0 =>
        IF invocation.authenticated
        THEN /\ invocation.middlewares = setup_default_middlewares
             /\ invocation.ran # 0
             /\ invocation.res.status # 401
        ELSE /\ invocation.res.status = 401
             /\ invocation.res.type = "HTTPException"
             /\ invocation.ran = 0
             /\ invocation.middlewares = <<"auth_middleware">>

\* a call without authentication of a registered tool whose handler would
\* have raised
C38_Witness ==
    /\ invocation.latest.func # 0
    /\ ~invocation.authenticated
    /\ invocation.behaviour = "raises"
    /\ invocation.res.status = 401


\* what the loop of server v prints for a line that is the first it reads
FirstPass(v, line) ==
    IF v = "fastapi" THEN fastapi_pass(line, Unbound, QuietOracle)
    ELSE optimized_pass(line, Unbound, QuietOracle)

\* C39: the responses to a line that does not reach a tool (initialize,
\* tools/list, resources/list, a notification, an unknown method, a line
\* answered with an error) are the ones the same line gets as the first
\* line of the session: their id, result and error code depend on nothing
\* an earlier line left behind.
C39_ResponseOfMessageAlone ==
    (last.syntax # "none" /\ ~IsToolCall(last)) =>
        written = FirstPass(variant, last).written

==============================================================================
